---- MODULE Spec2Model ----
(***************************************************************************)
(* Model of the detection resolver (src/src/detection/resolver.ts) and of  *)
(* the template renderer / expression evaluator                            *)
(* (src/unnamed/part_006, custom-templates/renderer.ts).                   *)
(*                                                                         *)
(* Strings are sequences of lexemes.  A lexeme is a word ("framework",     *)
(* "nextjs", "Next.js App Router"), a separator ("=", ",", " ", "\n"), a   *)
(* quote, or one of the renderer's markers ("{{#if", "{{/if", "{{", "}}"). *)
(* Every pattern the code searches for is a whole number of lexemes, so    *)
(* split / trim / indexOf / includes / startsWith and the regular          *)
(* expressions are computed on lexeme sequences as the code computes them  *)
(* on characters.                                                          *)
(***************************************************************************)
EXTENDS Integers, Sequences, FiniteSets, TLC

VARIABLES
    \* resolveDetection(evidence, hasPackageJson)
    evidence, hasPackageJson, pc, answers, warnings, seenFields, type, confidence,
    \* renderTemplate(template, context)
    template, context, result, pass, rpc,
    \* interpolateSimple(template, context)
    simple, spc,
    \* evaluateWhenExpression(expr, answers)
    expr, evalCtx, evalOut, epc,
    \* detectProject(cwd): the directory (manifest, paths) and the locals
    manifest, paths, pkg, depEvidence, configEvidence, folderEvidence,
    configStep, folderStep, completed, dpc,
    \* what fails under the scanned directory: reading or parsing package.json,
    \* fs.access of a path, fs.readdir of the directory (".")
    faults,
    \* validateCustomTemplate(raw, filePath): the arguments, the returned record
    raw, filePath, validation, vpc,
    \* resolveTemplateConfig(type) and loadCustomTemplates(): the two template
    \* directories, the lists being built, the id looked up and what is returned
    globalDir, projectDir, allTemplates, allErrors, wanted, returned, lpc

vars == <<evidence, hasPackageJson, pc, answers, warnings, seenFields, type, confidence,
          template, context, result, pass, rpc, simple, spc, expr, evalCtx, evalOut, epc,
          manifest, paths, pkg, depEvidence, configEvidence, folderEvidence,
          configStep, folderStep, completed, dpc, faults,
          raw, filePath, validation, vpc,
          globalDir, projectDir, allTemplates, allErrors, wanted, returned, lpc>>

resolverVars == <<evidence, hasPackageJson, pc, answers, warnings, seenFields, type, confidence>>
renderVars == <<template, context, result, pass, rpc, simple, spc>>
evalVars == <<expr, evalCtx, evalOut, epc>>
detectVars == <<manifest, paths, pkg, depEvidence, configEvidence, folderEvidence,
                configStep, folderStep, completed, dpc, faults>>
validatorVars == <<raw, filePath, validation, vpc>>
loaderVars == <<globalDir, projectDir, allTemplates, allErrors, wanted, returned, lpc>>

-----------------------------------------------------------------------------
(* Bounds *)

\* longest evidence list handed to resolveDetection
MaxEvidence == 3

\* most files in the global template directory
MaxFiles == 2

\* longest questions array of a raw template
MaxQuestions == 2

\* longest run of newlines written in a template
MaxNewlines == 5

-----------------------------------------------------------------------------
(* String primitives on lexeme sequences *)

\* String.prototype.indexOf for a one-lexeme pattern; 0 stands for JS -1
IndexOf(s, t) ==
    IF \E i \in 1..Len(s) : s[i] = t
    THEN CHOOSE i \in 1..Len(s) : s[i] = t /\ \A j \in 1..(i - 1) : s[j] # t
    ELSE 0

\* String.prototype.includes
Includes(s, pat) ==
    \E i \in 0..(Len(s) - Len(pat)) : SubSeq(s, i + 1, i + Len(pat)) = pat

\* String.prototype.startsWith
StartsWith(s, pat) ==
    Len(s) >= Len(pat) /\ SubSeq(s, 1, Len(pat)) = pat

\* String.prototype.split on a one-lexeme separator
RECURSIVE Split(_, _)
Split(s, sep) ==
    LET i == IndexOf(s, sep)
    IN  IF i = 0 THEN <<s>>
        ELSE <<SubSeq(s, 1, i - 1)>> \o Split(SubSeq(s, i + 1, Len(s)), sep)

IsSpace(t) == t \in {" ", "\n"}

\* String.prototype.trim
RECURSIVE Trim(_)
Trim(s) ==
    IF s = <<>> THEN s
    ELSE IF IsSpace(s[1]) THEN Trim(Tail(s))
    ELSE IF IsSpace(s[Len(s)]) THEN Trim(SubSeq(s, 1, Len(s) - 1))
    ELSE s

-----------------------------------------------------------------------------
(* JavaScript values and plain objects *)

Undefined == [k |-> "undefined", v |-> <<"undefined">>]
Null      == [k |-> "null", v |-> <<"null">>]
Str(s)    == [k |-> "str", v |-> s]
Bool(b)   == [k |-> "bool", v |-> IF b THEN <<"true">> ELSE <<"false">>]
Num(s)    == [k |-> "num", v |-> s]
Arr(s)    == [k |-> "arr", v |-> s]

\* String(value)
StringOf(val) == val.v

\* a plain object: v maps each own key to its value
Obj(o)    == [k |-> "obj", v |-> o]

\* {}
EmptyObject == [f \in {} |-> Undefined]

\* obj[key]
Get(obj, key) == IF key \in DOMAIN obj THEN obj[key] ELSE Undefined

\* obj[key] = val
Put(obj, key, val) ==
    [f \in DOMAIN obj \cup {key} |-> IF f = key THEN val ELSE obj[f]]

\* delete obj[key]
Delete(obj, key) == [f \in DOMAIN obj \ {key} |-> obj[f]]

\* typeof val
TypeOf(val) ==
    CASE val.k = "str" -> "string"
      [] val.k = "num" -> "number"
      [] val.k = "bool" -> "boolean"
      [] val.k = "undefined" -> "undefined"
      [] OTHER -> "object"

\* val[key] for a value of any kind: only a plain object has keys of its own
Prop(val, key) == IF val.k = "obj" THEN Get(val.v, key) ELSE Undefined

\* what validateCustomTemplate has returned before it is called
NoValidation == [valid |-> FALSE, errors |-> <<>>, warnings |-> <<>>, templateId |-> Undefined]

\* a directory that does not exist or cannot be read
NoDirectory == [readable |-> FALSE, files |-> <<>>]

\* a one-word string
W(w) == <<w>>

-----------------------------------------------------------------------------
(* Evidence, as the scanners of src/src/detection/scanners.ts emit it *)

\* `${dep} dependency`
DepSource(dep) == <<dep, " ", "dependency">>

\* "f=v"
Pair(f, v) == <<f, "=", v>>

\* "f1=v1, f2=v2"
Pair2(f1, v1, f2, v2) == <<f1, "=", v1, ",", " ", f2, "=", v2>>

Ev(src, imp, cat) == [source |-> src, implies |-> imp, category |-> cat]

\* scanDependencies: FRAMEWORK_DEPS, TECH_DEPS and DB_DRIVER_DEPS rows
DependencyEvidence ==
    { Ev(DepSource("next"), Pair2("type", "fullstack-or-frontend", "framework", "nextjs"), "dependency"),
      Ev(DepSource("@nestjs/core"), Pair("type", "microservice"), "dependency"),
      Ev(DepSource("express"), Pair2("type", "api", "framework", "express"), "dependency"),
      Ev(DepSource("prisma"), Pair("orm", "prisma"), "dependency"),
      Ev(DepSource("mongoose"), Pair("orm", "mongoose"), "dependency"),
      Ev(DepSource("mongodb"), Pair("database-driver", "mongodb"), "dependency"),
      Ev(DepSource("better-sqlite3"), Pair("database-driver", "sqlite"), "dependency"),
      Ev(DepSource("vitest"), Pair("testing", "vitest"), "dependency"),
      Ev(DepSource("@playwright/test"), Pair("testing", "vitest-playwright"), "dependency") }

\* scanConfigFiles rows
ConfigEvidence ==
    { Ev(W("nuxt.config.js"), Pair("framework", "nuxt"), "config-file"),
      Ev(W("nest-cli.json"), Pair("type", "microservice"), "config-file"),
      Ev(W("Dockerfile"), Pair2("containerization", "docker", "includeDocker", "true"), "config-file") }

\* scanFolderStructure rows
FolderEvidence ==
    { Ev(<<"src/", "components/">>, W("frontend-hint"), "folder-structure"),
      Ev(W("terraform/"), Pair2("iac", "terraform", "type-hint", "devops"), "folder-structure") }

EvidenceCatalog == DependencyEvidence \cup ConfigEvidence \cup FolderEvidence

EvidenceLists == UNION { [1..n -> EvidenceCatalog] : n \in 0..MaxEvidence }

-----------------------------------------------------------------------------
(* The scanners of src/src/detection/scanners.ts *)

\* FRAMEWORK_DEPS, in the order of Object.entries; field "" where the row has none
FRAMEWORK_DEPS ==
    << [dep |-> "next", typeHint |-> "fullstack-or-frontend", field |-> "framework", value |-> "nextjs"],
       [dep |-> "nuxt", typeHint |-> "fullstack-or-frontend", field |-> "framework", value |-> "nuxt"],
       [dep |-> "@remix-run/react", typeHint |-> "fullstack-or-frontend", field |-> "framework", value |-> "remix"],
       [dep |-> "@sveltejs/kit", typeHint |-> "fullstack-or-frontend", field |-> "framework", value |-> "sveltekit"],
       [dep |-> "@nestjs/core", typeHint |-> "microservice", field |-> "", value |-> ""],
       [dep |-> "express", typeHint |-> "api", field |-> "framework", value |-> "express"],
       [dep |-> "fastify", typeHint |-> "api", field |-> "framework", value |-> "fastify"],
       [dep |-> "hono", typeHint |-> "api", field |-> "framework", value |-> "hono"],
       [dep |-> "koa", typeHint |-> "api", field |-> "framework", value |-> "koa"] >>

TechRow(dep, field, value) == [dep |-> dep, field |-> field, value |-> value]

\* TECH_DEPS, in the order of Object.entries; the boolean of the last row as String(true)
TECH_DEPS ==
    << TechRow("@shadcn/ui", "uiLibrary", "shadcn"), TechRow("@mui/material", "uiLibrary", "mui"),
       TechRow("@chakra-ui/react", "uiLibrary", "chakra"),
       TechRow("@headlessui/react", "uiLibrary", "headless"),
       TechRow("zustand", "stateManagement", "zustand"),
       TechRow("@reduxjs/toolkit", "stateManagement", "redux"),
       TechRow("jotai", "stateManagement", "jotai"), TechRow("pinia", "stateManagement", "pinia"),
       TechRow("react-hook-form", "forms", "react-hook-form"),
       TechRow("@tanstack/react-form", "forms", "tanstack-form"), TechRow("formik", "forms", "formik"),
       TechRow("@tanstack/react-query", "dataFetching", "tanstack-query"),
       TechRow("swr", "dataFetching", "swr"), TechRow("tailwindcss", "styling", "tailwind"),
       TechRow("styled-components", "styling", "styled-components"),
       TechRow("prisma", "orm", "prisma"), TechRow("@prisma/client", "orm", "prisma"),
       TechRow("drizzle-orm", "orm", "drizzle"), TechRow("mongoose", "orm", "mongoose"),
       TechRow("typeorm", "orm", "typeorm"), TechRow("next-auth", "auth", "authjs"),
       TechRow("@clerk/nextjs", "auth", "clerk"), TechRow("lucia", "auth", "lucia"),
       TechRow("jsonwebtoken", "auth", "jwt"), TechRow("passport", "auth", "oauth"),
       TechRow("zod", "validation", "zod"), TechRow("joi", "validation", "joi"),
       TechRow("yup", "validation", "yup"), TechRow("vitest", "testing", "vitest"),
       TechRow("jest", "testing", "jest"),
       TechRow("@playwright/test", "testing", "vitest-playwright"),
       TechRow("cypress", "testing", "jest-cypress"),
       TechRow("@storybook/react", "includeStorybook", "true") >>

\* DB_DRIVER_DEPS, in the order of Object.entries
DB_DRIVER_DEPS ==
    << [dep |-> "pg", dbType |-> "postgres"], [dep |-> "mssql", dbType |-> "sqlserver"],
       [dep |-> "mysql2", dbType |-> "mysql"], [dep |-> "mongodb", dbType |-> "mongodb"],
       [dep |-> "better-sqlite3", dbType |-> "sqlite"] >>

\* what readPackageJson returns: null, or the names under dependencies and devDependencies
NoPackage == [present |-> FALSE, deps |-> {}]
Package(deps) == [present |-> TRUE, deps |-> deps]

\* readPackageJson: null when package.json is missing, or reading or parsing it fails
readPackageJson(m, f) == IF "package.json" \in f THEN NoPackage ELSE m

\* exists() answering true for a path whose fs.access fails
Accessible_DeniedCounts(ps, f) == ps

\* the paths for which exists() answers true: present and fs.access succeeds
Accessible(ps, f) == ps \ f

\* the names fs.readdir(cwd) returns; none when it fails
Listed(ps, f) == IF "." \in f THEN {} ELSE ps

\* the rows of a table whose dep is in allDeps, in table order
RowsIn(table, allDeps) == SelectSeq(table, LAMBDA r : r.dep \in allDeps)

FrameworkRowEvidence(row) ==
    Ev(DepSource(row.dep),
       IF row.field # "" THEN Pair2("type", row.typeHint, row.field, row.value)
       ELSE Pair("type", row.typeHint),
       "dependency")

TechRowEvidence(row) == Ev(DepSource(row.dep), Pair(row.field, row.value), "dependency")

DriverRowEvidence(row) == Ev(DepSource(row.dep), Pair("database-driver", row.dbType), "dependency")

\* scanDependencies(pkg)
scanDependencies(allDeps) ==
    LET frameworks == RowsIn(FRAMEWORK_DEPS, allDeps)
        techs == RowsIn(TECH_DEPS, allDeps)
        drivers == RowsIn(DB_DRIVER_DEPS, allDeps)
    IN  [n \in 1..Len(frameworks) |-> FrameworkRowEvidence(frameworks[n])]
            \o [n \in 1..Len(techs) |-> TechRowEvidence(techs[n])]
            \o [n \in 1..Len(drivers) |-> DriverRowEvidence(drivers[n])]

\* the checks of scanConfigFiles, in order
ConfigChecks ==
    << [patterns |-> <<"next.config.js", "next.config.mjs", "next.config.ts">>,
        implies |-> Pair("framework", "nextjs")],
       [patterns |-> <<"nuxt.config.js", "nuxt.config.ts">>, implies |-> Pair("framework", "nuxt")],
       [patterns |-> <<"svelte.config.js", "svelte.config.ts">>,
        implies |-> Pair("framework", "sveltekit")],
       [patterns |-> <<"nest-cli.json">>, implies |-> Pair("type", "microservice")],
       [patterns |-> <<"Dockerfile">>,
        implies |-> Pair2("containerization", "docker", "includeDocker", "true")],
       [patterns |-> <<"docker-compose.yml", "docker-compose.yaml", "compose.yml", "compose.yaml">>,
        implies |-> Pair("orchestration", "docker-compose")],
       [patterns |-> <<".gitlab-ci.yml">>, implies |-> Pair("cicd", "gitlab-ci")],
       [patterns |-> <<"Jenkinsfile">>, implies |-> Pair("cicd", "jenkins")],
       [patterns |-> <<"tsconfig.json">>, implies |-> Pair("language", "typescript")] >>

\* steps of scanConfigFiles: one per check, then the three directory-based checks
ConfigSteps == Len(ConfigChecks) + 3

\* the evidence the k-th step of scanConfigFiles pushes, given the paths that exist
ConfigStepEvidence(k, ps) ==
    IF k <= Len(ConfigChecks)
    THEN LET found == SelectSeq(ConfigChecks[k].patterns, LAMBDA pattern : pattern \in ps)
         IN  IF found = <<>> THEN <<>>
             ELSE <<Ev(W(found[1]), ConfigChecks[k].implies, "config-file")>>
    ELSE IF k = Len(ConfigChecks) + 1
    THEN IF ".github/workflows" \in ps
         THEN <<Ev(W(".github/workflows/"), Pair("cicd", "github-actions"), "config-file")>>
         ELSE <<>>
    ELSE IF k = Len(ConfigChecks) + 2
    THEN IF "prisma/schema.prisma" \in ps
         THEN <<Ev(W("prisma/schema.prisma"), Pair("orm", "prisma"), "config-file")>>
         ELSE <<>>
    ELSE IF "drizzle.config.ts" \in ps \/ "drizzle.config.js" \in ps
         THEN <<Ev(W("drizzle.config.*"), Pair("orm", "drizzle"), "config-file")>>
         ELSE <<>>

\* the checks of scanFolderStructure, in order; source is `${dir}/`
FolderChecks ==
    << [dir |-> "src/app", source |-> <<"src/", "app/">>,
        implies |-> <<"Next.js", " ", "App", " ", "Router">>],
       [dir |-> "src/modules", source |-> <<"src/", "modules/">>,
        implies |-> <<"NestJS", " ", "modular", " ", "structure">>],
       [dir |-> "src/components", source |-> <<"src/", "components/">>,
        implies |-> W("frontend-hint")],
       [dir |-> "terraform", source |-> W("terraform/"),
        implies |-> Pair2("iac", "terraform", "type-hint", "devops")],
       [dir |-> "k8s", source |-> W("k8s/"), implies |-> Pair("orchestration", "kubernetes")],
       [dir |-> "kubernetes", source |-> W("kubernetes/"),
        implies |-> Pair("orchestration", "kubernetes")],
       [dir |-> "infrastructure", source |-> W("infrastructure/"),
        implies |-> Pair("type-hint", "devops")] >>

\* steps of scanFolderStructure: one per check, the clean-architecture count, the .tf files
FolderSteps == Len(FolderChecks) + 2

\* root files whose name ends in .tf
TerraformFiles == {"main.tf"}

\* the evidence the k-th step of scanFolderStructure pushes
FolderStepEvidence(k, ps) ==
    IF k <= Len(FolderChecks)
    THEN IF FolderChecks[k].dir \in ps
         THEN <<Ev(FolderChecks[k].source, FolderChecks[k].implies, "folder-structure")>>
         ELSE <<>>
    ELSE IF k = Len(FolderChecks) + 1
    THEN IF Cardinality({"src/domain", "src/application", "src/infrastructure"} \cap ps) >= 2
         THEN <<Ev(<<"src/", "domain/", " + ", "src/", "application/", " + ", "src/",
                     "infrastructure/">>,
                   Pair("architecture", "clean"), "folder-structure")>>
         ELSE <<>>
    ELSE IF ps \cap TerraformFiles # {}
         THEN <<Ev(<<"*.tf", " ", "files">>, Pair2("iac", "terraform", "type-hint", "devops"),
                   "folder-structure")>>
         ELSE <<>>

-----------------------------------------------------------------------------
(* resolver.ts helpers *)

\* parseImplies(implies)
parseImplies(implies) ==
    LET parts == Split(implies, ",")
    IN  [i \in 1..Len(parts) |->
            LET trimmed == Trim(parts[i])
                eqIdx == IndexOf(trimmed, "=")
            IN  IF eqIdx = 0
                THEN [field |-> trimmed, value |-> W("true")]
                ELSE [field |-> Trim(SubSeq(trimmed, 1, eqIdx - 1)),
                      value |-> Trim(SubSeq(trimmed, eqIdx + 1, Len(trimmed)))]]

\* line 20 without the type-hint test
MetaFields_NoTypeHint == {W("type"), W("database-driver")}

\* the meta fields skipped in step 1
MetaFields == {W("type"), W("type-hint"), W("database-driver")}

\* the conflict message pushed to warnings
ConflictWarning(field, used, value, source) ==
    <<"Conflicto en ", "\"">> \o field \o <<"\"", ": se usa ", "\"">> \o StringOf(used)
        \o <<"\"", " (de antes), se ignora ", "\"">> \o value \o <<"\"", " (de ">> \o source \o <<")">>

\* answers[field] !== value, value being a string
StrictNotEqual(val, str) == val.k # "str" \/ val.v # str

\* the write of a first assignment, "true"/"false" converted to booleans
Coerce(value) ==
    IF value = W("true") THEN Bool(TRUE)
    ELSE IF value = W("false") THEN Bool(FALSE)
    ELSE Str(value)

\* ExtractPair with the conflicting later value applied (last assignment wins)
ExtractPair_LastWins(st, p, ev) ==
    IF p.field \in MetaFields THEN st
    ELSE IF p.field \in st.seenFields
    THEN IF StrictNotEqual(Get(st.answers, p.field), p.value)
         THEN [st EXCEPT !.warnings =
                  Append(@, ConflictWarning(p.field, Get(st.answers, p.field), p.value, ev.source)),
                         !.answers = Put(@, p.field, Coerce(p.value))]
         ELSE st
    ELSE [st EXCEPT !.seenFields = @ \cup {p.field},
                    !.answers = Put(@, p.field, Coerce(p.value))]

\* body of the inner loop of step 1, for one { field, value } of ev
ExtractPair(st, p, ev) ==
    IF p.field \in MetaFields THEN st
    ELSE IF p.field \in st.seenFields
    THEN IF StrictNotEqual(Get(st.answers, p.field), p.value)
         THEN [st EXCEPT !.warnings =
                  Append(@, ConflictWarning(p.field, Get(st.answers, p.field), p.value, ev.source))]
         ELSE st
    ELSE [st EXCEPT !.seenFields = @ \cup {p.field},
                    !.answers = Put(@, p.field, Coerce(p.value))]

RECURSIVE ExtractPairs(_, _, _, _)
ExtractPairs(st, pairs, i, ev) ==
    IF i > Len(pairs) THEN st
    ELSE ExtractPairs(ExtractPair(st, pairs[i], ev), pairs, i + 1, ev)

\* step 1 of resolveDetection: the loop over the evidence
RECURSIVE ExtractAnswers(_, _, _)
ExtractAnswers(st, evs, i) ==
    IF i > Len(evs) THEN st
    ELSE ExtractAnswers(ExtractPairs(st, parseImplies(evs[i].implies), 1, evs[i]), evs, i + 1)

hasFramework(evs, name) ==
    \E i \in 1..Len(evs) :
        evs[i].category = "dependency" /\ Includes(evs[i].implies, <<"type", "=", name>>)

hasDep(evs, keyword) ==
    \E i \in 1..Len(evs) :
        evs[i].category = "dependency" /\ Includes(evs[i].source, keyword)

hasConfigType(evs, keyword) ==
    \E i \in 1..Len(evs) :
        evs[i].category = "config-file" /\ Includes(evs[i].implies, keyword)

hasFolderHint(evs, keyword) ==
    \E i \in 1..Len(evs) :
        evs[i].category = "folder-structure" /\ Includes(evs[i].implies, keyword)

hasORM(ans) == Get(ans, W("orm")) # Undefined

hasSrcDir(evs) ==
    \E i \in 1..Len(evs) :
        /\ evs[i].category = "folder-structure"
        /\ \/ StartsWith(evs[i].source, W("src/"))
           \/ Includes(evs[i].implies, W("frontend-hint"))

\* getDbDrivers(evidence), in evidence order
RECURSIVE getDbDrivers(_)
getDbDrivers(evs) ==
    IF evs = <<>> THEN <<>>
    ELSE (IF StartsWith(Head(evs).implies, <<"database-driver", "=">>)
          THEN <<Split(Head(evs).implies, "=")[2]>>
          ELSE <<>>) \o getDbDrivers(Tail(evs))

\* Array.prototype.includes
ArrIncludes(arr, x) == \E i \in 1..Len(arr) : arr[i] = x

\* resolveDbForMicroservice naming the variant after the first driver of the list
resolveDbForMicroservice_FirstDriver(evs, ans) ==
    LET drivers == getDbDrivers(evs)
        orm == Get(ans, W("orm"))
        relational == SelectSeq(drivers, LAMBDA x : x \in {W("sqlserver"), W("postgres"), W("mysql")})
        withDb ==
            IF orm = Str(W("mongoose")) \/ ArrIncludes(drivers, W("mongodb"))
            THEN Put(ans, W("database"), Str(W("mongoose")))
            ELSE IF orm = Str(W("typeorm")) \/ Len(drivers) > 0
            THEN IF relational # <<>>
                 THEN Put(ans, W("database"),
                          Str(IF relational[1] = W("sqlserver") THEN W("typeorm-sqlserver")
                              ELSE IF relational[1] = W("postgres") THEN W("typeorm-postgres")
                              ELSE W("typeorm-mysql")))
                 ELSE Put(ans, W("database"), Str(W("typeorm-postgres")))
            ELSE ans
    IN  Delete(withDb, W("orm"))

\* resolveDbForMicroservice(evidence, answers)
resolveDbForMicroservice(evs, ans) ==
    LET drivers == getDbDrivers(evs)
        orm == Get(ans, W("orm"))
        withDb ==
            IF orm = Str(W("mongoose")) \/ ArrIncludes(drivers, W("mongodb"))
            THEN Put(ans, W("database"), Str(W("mongoose")))
            ELSE IF orm = Str(W("typeorm")) \/ Len(drivers) > 0
            THEN IF ArrIncludes(drivers, W("sqlserver"))
                 THEN Put(ans, W("database"), Str(W("typeorm-sqlserver")))
                 ELSE IF ArrIncludes(drivers, W("postgres"))
                 THEN Put(ans, W("database"), Str(W("typeorm-postgres")))
                 ELSE IF ArrIncludes(drivers, W("mysql"))
                 THEN Put(ans, W("database"), Str(W("typeorm-mysql")))
                 ELSE Put(ans, W("database"), Str(W("typeorm-postgres")))
            ELSE ans
    IN  Delete(withDb, W("orm"))

\* resolveDbForFullstack with the sqlite test ahead of the mongodb test
resolveDbForFullstack_SqliteFirst(evs, ans) ==
    LET drivers == getDbDrivers(evs)
        orm == Get(ans, W("orm"))
    IN  IF ArrIncludes(drivers, W("sqlite"))
        THEN Put(ans, W("database"), Str(W("sqlite")))
        ELSE IF orm = Str(W("mongoose")) \/ ArrIncludes(drivers, W("mongodb"))
        THEN Put(ans, W("database"), Str(W("mongodb")))
        ELSE Put(ans, W("database"), Str(W("postgres")))

resolveDbForFullstack(evs, ans) ==
    LET drivers == getDbDrivers(evs)
        orm == Get(ans, W("orm"))
    IN  IF orm = Str(W("mongoose")) \/ ArrIncludes(drivers, W("mongodb"))
        THEN Put(ans, W("database"), Str(W("mongodb")))
        ELSE IF ArrIncludes(drivers, W("sqlite"))
        THEN Put(ans, W("database"), Str(W("sqlite")))
        ELSE Put(ans, W("database"), Str(W("postgres")))

\* JavaScript truthiness of a value
Truthy(val) ==
    CASE val.k \in {"undefined", "null"} -> FALSE
      [] val.k = "bool" -> val.v = W("true")
      [] val.k = "str" -> val.v # <<>>
      [] val.k = "num" -> val.v \notin {W("0"), W("NaN")}
      [] OTHER -> TRUE

resolveDbForApi(evs, ans) ==
    LET drivers == getDbDrivers(evs)
        orm == Get(ans, W("orm"))
    IN  IF orm = Str(W("mongoose")) \/ ArrIncludes(drivers, W("mongodb"))
        THEN Put(ans, W("database"), Str(W("mongodb")))
        ELSE IF ArrIncludes(drivers, W("sqlite"))
        THEN Put(ans, W("database"), Str(W("sqlite")))
        ELSE IF Truthy(orm) \/ Len(drivers) > 0
        THEN Put(ans, W("database"), Str(W("postgres")))
        ELSE ans

resolveTestingCombinations(evs, ans, warns) ==
    LET hasVitest == \E i \in 1..Len(evs) : evs[i].source = DepSource("vitest")
        hasJest == \E i \in 1..Len(evs) : evs[i].source = DepSource("jest")
        hasPlaywright == \E i \in 1..Len(evs) : evs[i].source = DepSource("@playwright/test")
        hasCypress == \E i \in 1..Len(evs) : evs[i].source = DepSource("cypress")
        resolved == IF hasVitest /\ hasPlaywright THEN Str(W("vitest-playwright"))
                    ELSE IF hasJest /\ hasCypress THEN Str(W("jest-cypress"))
                    ELSE Undefined
        quoted == <<"\"", "testing", "\"">>
        hits == {i \in 1..Len(warns) : Includes(warns[i], quoted)}
        conflictIdx == IF hits = {} THEN 0 ELSE CHOOSE i \in hits : \A j \in hits : i <= j
    IN  IF resolved # Undefined /\ Get(ans, W("testing")) # resolved
        THEN [answers |-> Put(ans, W("testing"), resolved),
              warnings |-> IF conflictIdx = 0 THEN warns
                           ELSE SubSeq(warns, 1, conflictIdx - 1)
                                    \o SubSeq(warns, conflictIdx + 1, Len(warns))]
        ELSE [answers |-> ans, warnings |-> warns]

\* the cascade with the library tier not asking for a source folder
DetermineType_LibraryWithoutSrc(evs, hasPkg, ans) ==
    IF hasFramework(evs, "microservice") \/ hasConfigType(evs, <<"type", "=", "microservice">>)
    THEN [type |-> "microservice", confidence |-> 95, answers |-> resolveDbForMicroservice(evs, ans)]
    ELSE IF hasFramework(evs, "fullstack-or-frontend") /\ hasORM(ans)
    THEN [type |-> "fullstack", confidence |-> 90, answers |-> resolveDbForFullstack(evs, ans)]
    ELSE IF hasFramework(evs, "fullstack-or-frontend")
    THEN [type |-> "frontend", confidence |-> 85, answers |-> ans]
    ELSE IF hasFramework(evs, "api")
    THEN [type |-> "api", confidence |-> 85, answers |-> resolveDbForApi(evs, ans)]
    ELSE IF \/ hasFolderHint(evs, <<"type-hint", "=", "devops">>)
            \/ (hasConfigType(evs, <<"containerization", "=", "docker">>) /\ ~hasPkg)
    THEN [type |-> "devops", confidence |-> 80, answers |-> ans]
    ELSE IF hasPkg
    THEN [type |-> "library", confidence |-> 60, answers |-> ans]
    ELSE [type |-> "basic", confidence |-> 30, answers |-> ans]

\* DetermineType with the frontend tier carrying the fullstack confidence
DetermineType_FrontendConfidence(evs, hasPkg, ans) ==
    IF hasFramework(evs, "microservice") \/ hasConfigType(evs, <<"type", "=", "microservice">>)
    THEN [type |-> "microservice", confidence |-> 95, answers |-> resolveDbForMicroservice(evs, ans)]
    ELSE IF hasFramework(evs, "fullstack-or-frontend") /\ hasORM(ans)
    THEN [type |-> "fullstack", confidence |-> 90, answers |-> resolveDbForFullstack(evs, ans)]
    ELSE IF hasFramework(evs, "fullstack-or-frontend")
    THEN [type |-> "frontend", confidence |-> 90, answers |-> ans]
    ELSE IF hasFramework(evs, "api")
    THEN [type |-> "api", confidence |-> 85, answers |-> resolveDbForApi(evs, ans)]
    ELSE IF \/ hasFolderHint(evs, <<"type-hint", "=", "devops">>)
            \/ (hasConfigType(evs, <<"containerization", "=", "docker">>) /\ ~hasPkg)
    THEN [type |-> "devops", confidence |-> 80, answers |-> ans]
    ELSE IF hasPkg /\ hasSrcDir(evs)
    THEN [type |-> "library", confidence |-> 60,
          answers |-> IF \/ hasConfigType(evs, <<"language", "=", "typescript">>)
                         \/ hasDep(evs, W("typescript"))
                      THEN Put(ans, W("language"), Str(W("typescript")))
                      ELSE ans]
    ELSE [type |-> "basic", confidence |-> 30, answers |-> ans]

\* DetermineType with the microservice test placed after the fullstack and frontend tests
DetermineType_MicroserviceLate(evs, hasPkg, ans) ==
    IF hasFramework(evs, "fullstack-or-frontend") /\ hasORM(ans)
    THEN [type |-> "fullstack", confidence |-> 90, answers |-> resolveDbForFullstack(evs, ans)]
    ELSE IF hasFramework(evs, "fullstack-or-frontend")
    THEN [type |-> "frontend", confidence |-> 85, answers |-> ans]
    ELSE IF hasFramework(evs, "microservice") \/ hasConfigType(evs, <<"type", "=", "microservice">>)
    THEN [type |-> "microservice", confidence |-> 95, answers |-> resolveDbForMicroservice(evs, ans)]
    ELSE IF hasFramework(evs, "api")
    THEN [type |-> "api", confidence |-> 85, answers |-> resolveDbForApi(evs, ans)]
    ELSE IF \/ hasFolderHint(evs, <<"type-hint", "=", "devops">>)
            \/ (hasConfigType(evs, <<"containerization", "=", "docker">>) /\ ~hasPkg)
    THEN [type |-> "devops", confidence |-> 80, answers |-> ans]
    ELSE IF hasPkg /\ hasSrcDir(evs)
    THEN [type |-> "library", confidence |-> 60,
          answers |-> IF \/ hasConfigType(evs, <<"language", "=", "typescript">>)
                         \/ hasDep(evs, W("typescript"))
                      THEN Put(ans, W("language"), Str(W("typescript")))
                      ELSE ans]
    ELSE [type |-> "basic", confidence |-> 30, answers |-> ans]

\* DetermineType with the container marker counted whether or not a manifest exists
DetermineType_DockerAlways(evs, hasPkg, ans) ==
    IF hasFramework(evs, "microservice") \/ hasConfigType(evs, <<"type", "=", "microservice">>)
    THEN [type |-> "microservice", confidence |-> 95, answers |-> resolveDbForMicroservice(evs, ans)]
    ELSE IF hasFramework(evs, "fullstack-or-frontend") /\ hasORM(ans)
    THEN [type |-> "fullstack", confidence |-> 90, answers |-> resolveDbForFullstack(evs, ans)]
    ELSE IF hasFramework(evs, "fullstack-or-frontend")
    THEN [type |-> "frontend", confidence |-> 85, answers |-> ans]
    ELSE IF hasFramework(evs, "api")
    THEN [type |-> "api", confidence |-> 85, answers |-> resolveDbForApi(evs, ans)]
    ELSE IF \/ hasFolderHint(evs, <<"type-hint", "=", "devops">>)
            \/ hasConfigType(evs, <<"containerization", "=", "docker">>)
    THEN [type |-> "devops", confidence |-> 80, answers |-> ans]
    ELSE IF hasPkg /\ hasSrcDir(evs)
    THEN [type |-> "library", confidence |-> 60,
          answers |-> IF \/ hasConfigType(evs, <<"language", "=", "typescript">>)
                         \/ hasDep(evs, W("typescript"))
                      THEN Put(ans, W("language"), Str(W("typescript")))
                      ELSE ans]
    ELSE [type |-> "basic", confidence |-> 30, answers |-> ans]

\* step 2 of resolveDetection: the if / else-if cascade, with the answers it rewrites
DetermineType(evs, hasPkg, ans) ==
    IF hasFramework(evs, "microservice") \/ hasConfigType(evs, <<"type", "=", "microservice">>)
    THEN [type |-> "microservice", confidence |-> 95, answers |-> resolveDbForMicroservice(evs, ans)]
    ELSE IF hasFramework(evs, "fullstack-or-frontend") /\ hasORM(ans)
    THEN [type |-> "fullstack", confidence |-> 90, answers |-> resolveDbForFullstack(evs, ans)]
    ELSE IF hasFramework(evs, "fullstack-or-frontend")
    THEN [type |-> "frontend", confidence |-> 85, answers |-> ans]
    ELSE IF hasFramework(evs, "api")
    THEN [type |-> "api", confidence |-> 85, answers |-> resolveDbForApi(evs, ans)]
    ELSE IF \/ hasFolderHint(evs, <<"type-hint", "=", "devops">>)
            \/ (hasConfigType(evs, <<"containerization", "=", "docker">>) /\ ~hasPkg)
    THEN [type |-> "devops", confidence |-> 80, answers |-> ans]
    ELSE IF hasPkg /\ hasSrcDir(evs)
    THEN [type |-> "library", confidence |-> 60,
          answers |-> IF \/ hasConfigType(evs, <<"language", "=", "typescript">>)
                         \/ hasDep(evs, W("typescript"))
                      THEN Put(ans, W("language"), Str(W("typescript")))
                      ELSE ans]
    ELSE [type |-> "basic", confidence |-> 30, answers |-> ans]

\* step 4 without the delete of line 109
RenameTesting_KeepsTesting(ty, ans) ==
    IF ty = "frontend" /\ Get(ans, W("testing")) # Undefined
    THEN Put(ans, W("includeTesting"), Get(ans, W("testing")))
    ELSE ans

\* step 4 of resolveDetection: testing is stored as includeTesting for frontend
RenameTesting(ty, ans) ==
    IF ty = "frontend" /\ Get(ans, W("testing")) # Undefined
    THEN Delete(Put(ans, W("includeTesting"), Get(ans, W("testing"))), W("testing"))
    ELSE ans

-----------------------------------------------------------------------------
(* resolveDetection as a state machine: one action per step of the function *)

\* values of the variables of the operations that are not running
IdleRender ==
    /\ template = <<>> /\ context = EmptyObject /\ result = <<>> /\ pass = 0 /\ rpc = "idle"
    /\ simple = <<>> /\ spc = "idle"
IdleEval ==
    /\ expr = <<>> /\ evalCtx = EmptyObject /\ evalOut = FALSE /\ epc = "idle"
IdleResolver ==
    /\ evidence = <<>> /\ hasPackageJson = FALSE /\ pc = "idle"
    /\ answers = EmptyObject /\ warnings = <<>> /\ seenFields = {}
    /\ type = "basic" /\ confidence = 30
IdleDetect ==
    /\ manifest = NoPackage /\ paths = {} /\ pkg = NoPackage
    /\ depEvidence = <<>> /\ configEvidence = <<>> /\ folderEvidence = <<>>
    /\ configStep = 1 /\ folderStep = 1 /\ completed = <<>> /\ dpc = "idle"
    /\ faults = {}
IdleValidator ==
    /\ raw = Undefined /\ filePath = <<>> /\ validation = NoValidation /\ vpc = "idle"
IdleLoader ==
    /\ globalDir = NoDirectory /\ projectDir = NoDirectory
    /\ allTemplates = <<>> /\ allErrors = <<>>
    /\ wanted = <<>> /\ returned = Undefined /\ lpc = "idle"

\* the call resolveDetection(evidence, hasPackageJson), locals initialised (lines 11-13, 54-55)
Init ==
    /\ evidence \in EvidenceLists
    /\ hasPackageJson \in BOOLEAN
    /\ pc = "extract"
    /\ answers = EmptyObject
    /\ warnings = <<>>
    /\ seenFields = {}
    /\ type = "basic"
    /\ confidence = 30
    /\ IdleRender
    /\ IdleEval
    /\ IdleDetect
    /\ IdleValidator
    /\ IdleLoader

\* Step 1: extract answers from evidence
Step1Extract ==
    /\ pc = "extract"
    /\ LET st == ExtractAnswers([answers |-> answers, warnings |-> warnings,
                                 seenFields |-> seenFields], evidence, 1)
       IN  /\ answers' = st.answers
           /\ warnings' = st.warnings
           /\ seenFields' = st.seenFields
    /\ pc' = "type"
    /\ UNCHANGED <<evidence, hasPackageJson, type, confidence, renderVars, evalVars, detectVars, validatorVars, loaderVars>>

\* Step 2: determine the template type
Step2Type ==
    /\ pc = "type"
    /\ LET r == DetermineType(evidence, hasPackageJson, answers)
       IN  /\ type' = r.type
           /\ confidence' = r.confidence
           /\ answers' = r.answers
    /\ pc' = "testing"
    /\ UNCHANGED <<evidence, hasPackageJson, warnings, seenFields, renderVars, evalVars, detectVars, validatorVars, loaderVars>>

\* Step 3: resolve combined testing values
Step3Testing ==
    /\ pc = "testing"
    /\ LET r == resolveTestingCombinations(evidence, answers, warnings)
       IN  /\ answers' = r.answers
           /\ warnings' = r.warnings
    /\ pc' = "rename"
    /\ UNCHANGED <<evidence, hasPackageJson, seenFields, type, confidence, renderVars, evalVars, detectVars, validatorVars, loaderVars>>

\* Step 4: includeTesting for frontend, then return
Step4Return ==
    /\ pc = "rename"
    /\ answers' = RenameTesting(type, answers)
    /\ pc' = "done"
    /\ UNCHANGED <<evidence, hasPackageJson, warnings, seenFields, type, confidence,
                   renderVars, evalVars, detectVars, validatorVars, loaderVars>>

Next == Step1Extract \/ Step2Type \/ Step3Testing \/ Step4Return

Spec == Init /\ [][Next]_vars

\* the evidence lists of at most MaxEvidence items over a catalog
ListsOver(catalog) == UNION { [1..n -> catalog] : n \in 0..MaxEvidence }

\* the call resolveDetection(evidence, hasPackageJson) on one of the given lists
InitOver(lists) ==
    /\ evidence \in lists
    /\ hasPackageJson \in BOOLEAN
    /\ pc = "extract"
    /\ answers = EmptyObject
    /\ warnings = <<>>
    /\ seenFields = {}
    /\ type = "basic"
    /\ confidence = 30
    /\ IdleRender
    /\ IdleEval
    /\ IdleDetect
    /\ IdleValidator
    /\ IdleLoader

\* evidence of projects with test tools: the four TECH_DEPS testing rows, a
\* framework dependency, an ORM dependency and a framework config file
TestingCatalog ==
    { Ev(DepSource("vitest"), Pair("testing", "vitest"), "dependency"),
      Ev(DepSource("jest"), Pair("testing", "jest"), "dependency"),
      Ev(DepSource("@playwright/test"), Pair("testing", "vitest-playwright"), "dependency"),
      Ev(DepSource("cypress"), Pair("testing", "jest-cypress"), "dependency"),
      Ev(DepSource("next"), Pair2("type", "fullstack-or-frontend", "framework", "nextjs"), "dependency"),
      Ev(DepSource("prisma"), Pair("orm", "prisma"), "dependency"),
      Ev(W("nuxt.config.js"), Pair("framework", "nuxt"), "config-file") }

InitTesting == InitOver(ListsOver(TestingCatalog))

\* evidence of NestJS projects: the @nestjs/core row of FRAMEWORK_DEPS, the
\* mongoose, typeorm and prisma rows of TECH_DEPS and the five DB_DRIVER_DEPS rows
MicroserviceCatalog ==
    { Ev(DepSource("@nestjs/core"), Pair("type", "microservice"), "dependency"),
      Ev(DepSource("mongoose"), Pair("orm", "mongoose"), "dependency"),
      Ev(DepSource("typeorm"), Pair("orm", "typeorm"), "dependency"),
      Ev(DepSource("prisma"), Pair("orm", "prisma"), "dependency"),
      Ev(DepSource("pg"), Pair("database-driver", "postgres"), "dependency"),
      Ev(DepSource("mssql"), Pair("database-driver", "sqlserver"), "dependency"),
      Ev(DepSource("mysql2"), Pair("database-driver", "mysql"), "dependency"),
      Ev(DepSource("mongodb"), Pair("database-driver", "mongodb"), "dependency"),
      Ev(DepSource("better-sqlite3"), Pair("database-driver", "sqlite"), "dependency") }

InitMicroservice == InitOver(ListsOver(MicroserviceCatalog))

SpecMicroservice == InitMicroservice /\ [][Next]_vars

SpecTesting == InitTesting /\ [][Next]_vars

-----------------------------------------------------------------------------
(* detectProject, src/src/detection/types.ts lines 41-59, as a state machine *)

\* names a package.json of the model may list
ProjectDeps == {"next", "mongoose", "vitest", "@playwright/test"}

\* paths that may exist under the scanned directory
ProjectPaths == {"nuxt.config.ts", "prisma/schema.prisma", "docker-compose.yml", "src/components", "k8s"}

\* line 55 with the first two operands exchanged
MergeEvidence_ConfigFirst(dep, config, folder) == config \o dep \o folder

\* line 55: [...depEvidence, ...configEvidence, ...folderEvidence]
MergeEvidence(dep, config, folder) == dep \o config \o folder

\* the call detectProject(dir) on a directory with or without a readable package.json
InitDetect ==
    /\ manifest \in {NoPackage} \cup {Package(deps) : deps \in SUBSET ProjectDeps}
    /\ paths \in SUBSET ProjectPaths
    /\ pkg = NoPackage
    /\ depEvidence = <<>> /\ configEvidence = <<>> /\ folderEvidence = <<>>
    /\ configStep = 1 /\ folderStep = 1
    /\ completed = <<>>
    /\ dpc = "read"
    /\ faults = {}
    /\ IdleResolver
    /\ IdleRender
    /\ IdleEval
    /\ IdleValidator
    /\ IdleLoader

\* line 45: const pkg = await readPackageJson(dir)
ReadPackageJson ==
    /\ dpc = "read"
    /\ pkg' = readPackageJson(manifest, faults)
    /\ dpc' = "start"
    /\ UNCHANGED <<manifest, paths, faults, depEvidence, configEvidence, folderEvidence, configStep,
                   folderStep, completed, resolverVars, renderVars, evalVars, validatorVars, loaderVars>>

\* lines 48-52: the array handed to Promise.all is built; scanDependencies runs
\* to its end at once, the two asynchronous scans are started
StartScans ==
    /\ dpc = "start"
    /\ depEvidence' = IF pkg.present THEN scanDependencies(pkg.deps) ELSE <<>>
    /\ completed' = Append(completed, "dependency")
    /\ dpc' = "scanning"
    /\ UNCHANGED <<manifest, paths, faults, pkg, configEvidence, folderEvidence, configStep, folderStep,
                   resolverVars, renderVars, evalVars, validatorVars, loaderVars>>

\* scanConfigFiles resumes after an await and runs its next check
ConfigScanStep ==
    /\ dpc = "scanning"
    /\ configStep <= ConfigSteps
    /\ configEvidence' = configEvidence \o ConfigStepEvidence(configStep, Accessible(paths, faults))
    /\ configStep' = configStep + 1
    /\ completed' = IF configStep = ConfigSteps THEN Append(completed, "config-file")
                    ELSE completed
    /\ UNCHANGED <<manifest, paths, faults, pkg, depEvidence, folderEvidence, folderStep, dpc,
                   resolverVars, renderVars, evalVars, validatorVars, loaderVars>>

\* scanFolderStructure resumes after an await and runs its next check
FolderScanStep ==
    /\ dpc = "scanning"
    /\ folderStep <= FolderSteps
    /\ folderEvidence' = folderEvidence
            \o FolderStepEvidence(folderStep, IF folderStep = FolderSteps
                                              THEN Listed(paths, faults)
                                              ELSE Accessible(paths, faults))
    /\ folderStep' = folderStep + 1
    /\ completed' = IF folderStep = FolderSteps THEN Append(completed, "folder-structure")
                    ELSE completed
    /\ UNCHANGED <<manifest, paths, faults, pkg, depEvidence, configEvidence, configStep, dpc,
                   resolverVars, renderVars, evalVars, validatorVars, loaderVars>>

\* lines 48-58: Promise.all settles once the three results are there; the
\* evidence is combined and resolveDetection(allEvidence, pkg !== null) is called
MergeAndResolve ==
    /\ dpc = "scanning"
    /\ Len(completed) = 3
    /\ evidence' = MergeEvidence(depEvidence, configEvidence, folderEvidence)
    /\ hasPackageJson' = pkg.present
    /\ pc' = "extract"
    /\ dpc' = "resolve"
    /\ UNCHANGED <<answers, warnings, seenFields, type, confidence, manifest, paths, faults, pkg,
                   depEvidence, configEvidence, folderEvidence, configStep, folderStep, completed,
                   renderVars, evalVars, validatorVars, loaderVars>>

\* a directory where reading package.json, fs.access or fs.readdir may fail
FaultyDeps == {"next", "vitest"}
FaultyPaths == {"nuxt.config.ts", "k8s", "main.tf"}
Faults == {"package.json", ".", "nuxt.config.ts", "k8s"}

InitDetectFaults ==
    /\ manifest \in {NoPackage, Package(FaultyDeps)}
    /\ paths \in SUBSET FaultyPaths
    /\ faults \in SUBSET Faults
    /\ pkg = NoPackage
    /\ depEvidence = <<>> /\ configEvidence = <<>> /\ folderEvidence = <<>>
    /\ configStep = 1 /\ folderStep = 1
    /\ completed = <<>>
    /\ dpc = "read"
    /\ IdleResolver
    /\ IdleRender
    /\ IdleEval
    /\ IdleValidator
    /\ IdleLoader

NextDetect ==
    \/ ReadPackageJson
    \/ StartScans
    \/ ConfigScanStep
    \/ FolderScanStep
    \/ MergeAndResolve
    \/ Next

SpecDetect == InitDetect /\ [][NextDetect]_vars

SpecDetectFaults == InitDetectFaults /\ [][NextDetect]_vars

-----------------------------------------------------------------------------
(* Expression evaluator: evaluateCondition, src/unnamed/part_006 lines 56-88 *)

\* lexemes made of \w characters only
WordLexemes ==
    {"a", "b", "x", "flag", "db", "name", "true", "false", "undefined", "null", "v", "postgres",
     "mongo", "yes", "two", "words", "X", "outer", "inner", "end", "before", "after",
     "Hello", "World", "0", "1", "gap", "raw", "missing", "line1", "line2"}

\* lexemes matching [a-zA-Z_][a-zA-Z0-9_]*
IdentifierLexemes == WordLexemes \ {"0", "1"}

QuoteLexemes == {"'", "\""}

\* first index >= i of s that is not whitespace (Len(s) + 1 when there is none): \s*
RECURSIVE SkipSpaces(_, _)
SkipSpaces(s, i) ==
    IF i <= Len(s) /\ IsSpace(s[i]) THEN SkipSpaces(s, i + 1) ELSE i

NoMatch == [ok |-> FALSE, name |-> "", rest |-> <<>>]

\* the regular expressions /^(\w+)\s*===\s*['"](.+)['"]\s*$/ (op "===") and
\* /^(\w+)\s*!==\s*['"](.+)['"]\s*$/ (op "!=="): groups 1 and 2 of the match
MatchCompare(e, op) ==
    IF e = <<>> \/ e[1] \notin WordLexemes THEN NoMatch
    ELSE LET i == SkipSpaces(e, 2)
             j == SkipSpaces(e, i + 1)
             \* closing quotes: a quote with nothing but whitespace after it
             closers == {q \in (j + 2)..Len(e) :
                            e[q] \in QuoteLexemes /\ SkipSpaces(e, q + 1) = Len(e) + 1}
         IN  IF /\ i <= Len(e) /\ e[i] = op
                /\ j <= Len(e) /\ e[j] \in QuoteLexemes
                /\ closers # {}
             THEN LET q == CHOOSE q \in closers : TRUE
                      lit == SubSeq(e, j + 1, q - 1)
                  IN  \* . matches no line terminator
                      IF \A n \in 1..Len(lit) : lit[n] # "\n"
                      THEN [ok |-> TRUE, name |-> e[1], rest |-> lit]
                      ELSE NoMatch
             ELSE NoMatch

\* the regular expression /^(\w+)\s*===\s*(true|false)\s*$/
MatchBool(e) ==
    IF e = <<>> \/ e[1] \notin WordLexemes THEN NoMatch
    ELSE LET i == SkipSpaces(e, 2)
             j == SkipSpaces(e, i + 1)
         IN  IF /\ i <= Len(e) /\ e[i] = "==="
                /\ j <= Len(e) /\ e[j] \in {"true", "false"}
                /\ SkipSpaces(e, j + 1) = Len(e) + 1
             THEN [ok |-> TRUE, name |-> e[1], rest |-> <<e[j]>>]
             ELSE NoMatch

\* val ?? ''
OrEmpty(val) == IF val.k \in {"undefined", "null"} THEN Str(<<>>) ELSE val

\* lines 75-78 with the non-boolean branch missing
CompareBool_Strict(val, expected) == val = Bool(expected)

\* lines 75-78: val against the expected boolean
CompareBool(val, expected) ==
    IF val.k = "bool" THEN val = Bool(expected)
    ELSE (StringOf(val) = W("true")) = expected

\* lines 84-87 written as JavaScript truthiness
BareTruth_Truthy(val) == Truthy(val) /\ val # Str(W("false"))

\* lines 84-87: the truthiness of a bare identifier's value
BareTruth(val) ==
    ~(val \in {Undefined, Null, Bool(FALSE), Str(<<>>), Str(W("false"))})

\* evaluateCondition without the "?? ''" of lines 63 and 69
evaluateCondition_NoDefault(e, c) ==
    LET eqMatch == MatchCompare(e, "===")
        neqMatch == MatchCompare(e, "!==")
        boolMatch == MatchBool(e)
    IN  IF eqMatch.ok THEN StringOf(Get(c, W(eqMatch.name))) = eqMatch.rest
        ELSE IF neqMatch.ok THEN StringOf(Get(c, W(neqMatch.name))) # neqMatch.rest
        ELSE IF boolMatch.ok
        THEN CompareBool(Get(c, W(boolMatch.name)), boolMatch.rest = W("true"))
        ELSE BareTruth(Get(c, Trim(e)))

\* evaluateCondition with line 83 reading context[expr] instead of context[expr.trim()]
evaluateCondition_Untrimmed(e, c) ==
    LET eqMatch == MatchCompare(e, "===")
        neqMatch == MatchCompare(e, "!==")
        boolMatch == MatchBool(e)
    IN  IF eqMatch.ok THEN StringOf(OrEmpty(Get(c, W(eqMatch.name)))) = eqMatch.rest
        ELSE IF neqMatch.ok THEN StringOf(OrEmpty(Get(c, W(neqMatch.name)))) # neqMatch.rest
        ELSE IF boolMatch.ok
        THEN CompareBool(Get(c, W(boolMatch.name)), boolMatch.rest = W("true"))
        ELSE BareTruth(Get(c, e))

\* evaluateCondition(expr, context)
evaluateCondition(e, c) ==
    LET eqMatch == MatchCompare(e, "===")
        neqMatch == MatchCompare(e, "!==")
        boolMatch == MatchBool(e)
    IN  IF eqMatch.ok THEN StringOf(OrEmpty(Get(c, W(eqMatch.name)))) = eqMatch.rest
        ELSE IF neqMatch.ok THEN StringOf(OrEmpty(Get(c, W(neqMatch.name)))) # neqMatch.rest
        ELSE IF boolMatch.ok
        THEN CompareBool(Get(c, W(boolMatch.name)), boolMatch.rest = W("true"))
        ELSE BareTruth(Get(c, Trim(e)))

\* evaluateWhenExpression(expr, answers)
evaluateWhenExpression(e, c) == evaluateCondition(e, c)

(* Inputs of the evaluator *)

EvalIdents == {"x", "flag"}

EvalLiterals == {W("v"), W("true"), W("undefined"), <<"two", " ", "words">>}

Spacings == {<<>>, W(" ")}

\* "x === 'v'" and "x !== 'v'", with or without blanks, in single or double quotes
CompareExpr(x, op, sp, q, lit) == <<x>> \o sp \o <<op>> \o sp \o <<q>> \o lit \o <<q>>

\* "x === true" and "x === false"
BoolExpr(x, sp, b) == <<x>> \o sp \o <<"===">> \o sp \o <<b>>

\* expressions in none of the three comparison forms: "x && flag",
\* "x || flag", "(x)", "!x", "x > 1", "x === 1", "x === 'v' && flag"
OtherExprs ==
    {<<"x", " ", "&&", " ", "flag">>, <<"x", " ", "||", " ", "flag">>, <<"(", "x", ")">>,
     <<"!", "x">>, <<"x", " ", ">", " ", "1">>, <<"x", " ", "===", " ", "1">>,
     <<"x", " ", "===", " ", "'", "v", "'", " ", "&&", " ", "flag">>,
     <<"x">>, <<"x", " ", "===", " ", "'", "v", "'">>}

\* an expression written with a blank before and after it
Padded(e) == <<" ">> \o e \o <<" ">>

EvalExprs ==
    {CompareExpr(x, op, sp, q, lit) :
        x \in EvalIdents, op \in {"===", "!=="}, sp \in Spacings, q \in QuoteLexemes,
        lit \in EvalLiterals}
    \cup {BoolExpr(x, sp, b) : x \in EvalIdents, sp \in Spacings, b \in {"true", "false"}}
    \cup {W(x) : x \in EvalIdents}
    \cup OtherExprs \cup {Padded(e) : e \in OtherExprs}

EvalValues ==
    {Null, Bool(TRUE), Bool(FALSE), Str(<<>>), Str(W("false")), Str(W("true")), Str(W("v")),
     Str(W("undefined")), Str(<<"two", " ", "words">>), Num(W("0")), Num(W("1")),
     Arr(<<>>), Arr(W("true"))}

EvalContexts ==
    {EmptyObject} \cup {Put(EmptyObject, W(x), val) : x \in EvalIdents, val \in EvalValues}
    \cup {Put(Put(EmptyObject, W("x"), val), W("flag"), Bool(TRUE)) :
              val \in {Bool(TRUE), Str(W("v")), Num(W("1"))}}
    \cup {Put(EmptyObject, e, val) :
              e \in OtherExprs, val \in {Bool(TRUE), Bool(FALSE), Str(W("yes")), Str(W("false"))}}

\* the call evaluateWhenExpression(expr, evalCtx)
InitEval ==
    /\ expr \in EvalExprs
    /\ evalCtx \in EvalContexts
    /\ evalOut = FALSE
    /\ epc = "call"
    /\ IdleResolver
    /\ IdleRender
    /\ IdleDetect
    /\ IdleValidator
    /\ IdleLoader

Evaluate ==
    /\ epc = "call"
    /\ evalOut' = evaluateWhenExpression(expr, evalCtx)
    /\ epc' = "done"
    /\ UNCHANGED <<expr, evalCtx, resolverVars, renderVars, detectVars, validatorVars, loaderVars>>

NextEval == Evaluate

SpecEval == InitEval /\ [][NextEval]_vars

-----------------------------------------------------------------------------
(* Template renderer: renderTemplate, src/unnamed/part_006 lines 6-32 *)

\* the pass limit of the loop of step 1
MaxPasses == 5

\* "{{#if cond}}" and "{{/if}}"
IfOpen(cond) == <<"{{#if", " ">> \o cond \o <<"}}">>
IfClose == <<"{{/if", "}}">>

\* first index >= from where s holds t; 0 when there is none
RECURSIVE FindLexeme(_, _, _)
FindLexeme(s, t, from) ==
    IF from > Len(s) THEN 0
    ELSE IF s[from] = t THEN from
    ELSE FindLexeme(s, t, from + 1)

\* first index >= from where "{{/if}}" starts; 0 when there is none
RECURSIVE FindClose(_, _)
FindClose(s, from) ==
    IF from + 1 > Len(s) THEN 0
    ELSE IF s[from] = "{{/if" /\ s[from + 1] = "}}" THEN from
    ELSE FindClose(s, from + 1)

NoBlock == [ok |-> FALSE, condition |-> <<>>, body |-> <<>>, last |-> 0]

\* the match of IF_BLOCK = /\{\{#if\s+([^}]+)\}\}([\s\S]*?)\{\{\/if\}\}/ that starts at
\* s[i]: "{{#if", whitespace, a condition up to the next "}}", the shortest body up to the
\* next "{{/if}}"; last is the index of the last lexeme of the match
MatchIfAt(s, i) ==
    IF s[i] # "{{#if" \/ i + 1 > Len(s) \/ ~IsSpace(s[i + 1]) THEN NoBlock
    ELSE LET j == FindLexeme(s, "}}", i + 1)
             k == IF j = 0 THEN 0 ELSE FindClose(s, j + 1)
         IN  IF j < i + 3 \/ k = 0 THEN NoBlock
             ELSE [ok |-> TRUE,
                   condition |-> SubSeq(s, i + 1, j - 1),
                   body |-> SubSeq(s, j + 1, k - 1),
                   last |-> k + 1]

\* one pass with the branches of the replacement callback exchanged
RECURSIVE ReplaceIfBlocks_Inverted(_, _, _)
ReplaceIfBlocks_Inverted(s, i, c) ==
    IF i > Len(s) THEN <<>>
    ELSE LET m == MatchIfAt(s, i)
         IN  IF m.ok
             THEN (IF evaluateCondition(Trim(m.condition), c) THEN <<>> ELSE m.body)
                      \o ReplaceIfBlocks_Inverted(s, m.last + 1, c)
             ELSE <<s[i]>> \o ReplaceIfBlocks_Inverted(s, i + 1, c)

\* result.replace(IF_BLOCK, ...) of lines 19-21: every match, leftmost first, from s[i] on
RECURSIVE ReplaceIfBlocks(_, _, _)
ReplaceIfBlocks(s, i, c) ==
    IF i > Len(s) THEN <<>>
    ELSE LET m == MatchIfAt(s, i)
         IN  IF m.ok
             THEN (IF evaluateCondition(Trim(m.condition), c) THEN m.body ELSE <<>>)
                      \o ReplaceIfBlocks(s, m.last + 1, c)
             ELSE <<s[i]>> \o ReplaceIfBlocks(s, i + 1, c)

\* line 26 leaving the token of an identifier the context does not have
RECURSIVE ReplaceVarTokens_KeepMissing(_, _, _)
ReplaceVarTokens_KeepMissing(s, i, c) ==
    IF i > Len(s) THEN <<>>
    ELSE IF /\ s[i] = "{{" /\ i + 2 <= Len(s)
            /\ s[i + 1] \in IdentifierLexemes /\ s[i + 2] = "}}"
            /\ W(s[i + 1]) \in DOMAIN c
    THEN StringOf(OrEmpty(Get(c, W(s[i + 1])))) \o ReplaceVarTokens_KeepMissing(s, i + 3, c)
    ELSE <<s[i]>> \o ReplaceVarTokens_KeepMissing(s, i + 1, c)

\* result.replace(VAR_TOKEN, ...) of line 26 and of interpolateSimple
RECURSIVE ReplaceVarTokens(_, _, _)
ReplaceVarTokens(s, i, c) ==
    IF i > Len(s) THEN <<>>
    ELSE IF /\ s[i] = "{{" /\ i + 2 <= Len(s)
            /\ s[i + 1] \in IdentifierLexemes /\ s[i + 2] = "}}"
    THEN StringOf(OrEmpty(Get(c, W(s[i + 1])))) \o ReplaceVarTokens(s, i + 3, c)
    ELSE <<s[i]>> \o ReplaceVarTokens(s, i + 1, c)

\* number of consecutive "\n" from s[i] on
RECURSIVE NewlineRun(_, _)
NewlineRun(s, i) ==
    IF i <= Len(s) /\ s[i] = "\n" THEN 1 + NewlineRun(s, i + 1) ELSE 0

\* line 29 with the pattern /\n\n\n/g in place of /\n{3,}/g
RECURSIVE CollapseBlankLines_TripleOnly(_, _)
CollapseBlankLines_TripleOnly(s, i) ==
    IF i > Len(s) THEN <<>>
    ELSE IF NewlineRun(s, i) >= 3
         THEN <<"\n", "\n">> \o CollapseBlankLines_TripleOnly(s, i + 3)
         ELSE <<s[i]>> \o CollapseBlankLines_TripleOnly(s, i + 1)

\* result.replace(TRIPLE_BLANK, '\n\n') of line 29
RECURSIVE CollapseBlankLines(_, _)
CollapseBlankLines(s, i) ==
    IF i > Len(s) THEN <<>>
    ELSE LET n == NewlineRun(s, i)
         IN  IF n >= 3 THEN <<"\n", "\n">> \o CollapseBlankLines(s, i + n)
             ELSE <<s[i]>> \o CollapseBlankLines(s, i + 1)

\* interpolateSimple(expr, context)
interpolateSimple(s, c) == ReplaceVarTokens(s, 1, c)

(* Inputs of the renderer *)

\* pre {{#if cond}}body{{/if}} post
SingleBlock(pre, cond, body, post) == pre \o IfOpen(cond) \o body \o IfClose \o post

\* {{#if a}}t1{{#if b}}inner{{/if}}t2{{/if}}
NestedBlock(t1, inner, t2) ==
    IfOpen(W("a")) \o t1 \o IfOpen(W("b")) \o inner \o IfClose \o t2 \o IfClose

BlockConditions ==
    { W("a"), W("b"),
      <<"db", " ", "===", " ", "'", "postgres", "'">>,
      <<"db", " ", "!==", " ", "'", "postgres", "'">>,
      <<"a", " ", "===", " ", "true">> }

TextsBefore == {<<>>, <<"before", " ">>, <<"before", "\n", "\n">>}
TextsAfter == {<<>>, <<" ", "after">>, <<"\n", "after">>}
BlockBodies == {W("X"), <<"Hello", " ", "{{", "name", "}}">>, <<>>}

OuterTexts == {<<>>, W("outer")}
InnerTexts == {W("inner")}
EndTexts == {<<>>, W("end")}

SingleTemplates ==
    {SingleBlock(pre, cond, body, post) :
        pre \in TextsBefore, cond \in BlockConditions, body \in BlockBodies, post \in TextsAfter}

NestedTemplates ==
    {NestedBlock(t1, inner, t2) : t1 \in OuterTexts, inner \in InnerTexts, t2 \in EndTexts}

\* {{name}}
Token(name) == <<"{{", name, "}}">>

\* names written between {{ and }}: "missing" is in no context, "1" is no identifier
TokenNames == {"name", "a", "db", "gap", "raw", "missing", "1"}

\* t1{{n1}}t2{{n2}}: templates with tokens and no block
TokenTemplate(t1, n1, t2, n2) == t1 \o Token(n1) \o t2 \o Token(n2)

\* names of the second token of a template
LastTokenNames == {"name", "gap", "missing"}

TokenTemplates ==
    {TokenTemplate(t1, n1, t2, n2) :
        t1 \in {<<>>, <<"Hello", " ">>}, n1 \in TokenNames, t2 \in {W(" "), W("\n")},
        n2 \in LastTokenNames}

\* k newline characters
Newlines(k) == [n \in 1..k |-> "\n"]

\* line1, k newlines, line2
NewlineTemplates == {W("line1") \o Newlines(k) \o W("line2") : k \in 1..MaxNewlines}

Templates == SingleTemplates \cup NestedTemplates \cup TokenTemplates \cup NewlineTemplates

\* a string of the context, or no entry
FlagValues == {Undefined, Str(W("true")), Str(W("false")), Str(<<>>), Str(W("yes"))}

WithFlag(c, key, val) == IF val = Undefined THEN c ELSE Put(c, key, val)

\* name, gap (two newlines) and raw (the text of a token) are in every context
BaseContext ==
    Put(Put(Put(EmptyObject, W("name"), Str(W("World"))), W("gap"), Str(<<"\n", "\n">>)),
        W("raw"), Str(<<"{{", "name", "}}">>))

RenderContexts ==
    {WithFlag(WithFlag(WithFlag(BaseContext,
                                W("a"), va), W("b"), vb), W("db"), vd) :
        va \in FlagValues, vb \in FlagValues, vd \in {Undefined, Str(W("postgres")), Str(W("mongo"))}}

\* the call renderTemplate(template, context): let result = template (line 14)
InitRender ==
    /\ template \in Templates
    /\ context \in RenderContexts
    /\ result = template
    /\ pass = 0
    /\ rpc = "blocks"
    /\ simple = <<>>
    /\ spc = "call"
    /\ IdleResolver
    /\ IdleEval
    /\ IdleDetect
    /\ IdleValidator
    /\ IdleLoader

\* the for loop of line 17 without its limit of 5 iterations
IfPass_Unbounded ==
    /\ rpc = "blocks"
    /\ LET before == result
           after == ReplaceIfBlocks(result, 1, context)
       IN  /\ result' = after
           /\ IF after = before
              THEN pass' = pass /\ rpc' = "vars"
              ELSE pass' = pass + 1 /\ rpc' = "blocks"
    /\ UNCHANGED <<template, context, simple, spc, resolverVars, evalVars, detectVars, validatorVars, loaderVars>>

\* Step 1: one pass of the loop of lines 17-23
IfPass ==
    /\ rpc = "blocks"
    /\ pass < MaxPasses
    /\ LET before == result
           after == ReplaceIfBlocks(result, 1, context)
       IN  /\ result' = after
           /\ IF after = before
              THEN pass' = pass /\ rpc' = "vars"
              ELSE /\ pass' = pass + 1
                   /\ rpc' = IF pass + 1 < MaxPasses THEN "blocks" ELSE "vars"
    /\ UNCHANGED <<template, context, simple, spc, resolverVars, evalVars, detectVars, validatorVars, loaderVars>>

\* Step 2: replace {{variable}} tokens
SubstituteVars ==
    /\ rpc = "vars"
    /\ result' = ReplaceVarTokens(result, 1, context)
    /\ rpc' = "collapse"
    /\ UNCHANGED <<template, context, pass, simple, spc, resolverVars, evalVars, detectVars, validatorVars, loaderVars>>

\* Step 3: collapse 3+ consecutive newlines to 2, then return
CollapseAndReturn ==
    /\ rpc = "collapse"
    /\ result' = CollapseBlankLines(result, 1)
    /\ rpc' = "done"
    /\ UNCHANGED <<template, context, pass, simple, spc, resolverVars, evalVars, detectVars, validatorVars, loaderVars>>

\* the call interpolateSimple(template, context) on the same arguments
InterpolateSimple ==
    /\ rpc = "done"
    /\ spc = "call"
    /\ simple' = interpolateSimple(template, context)
    /\ spc' = "done"
    /\ UNCHANGED <<template, context, result, pass, rpc, resolverVars, evalVars, detectVars, validatorVars, loaderVars>>

NextRender == IfPass \/ SubstituteVars \/ CollapseAndReturn \/ InterpolateSimple

SpecRender == InitRender /\ [][NextRender]_vars

-----------------------------------------------------------------------------
(* Properties of resolveDetection *)

\* every { field, value } asserted by the evidence list, in evidence order
RECURSIVE Assertions(_, _)
Assertions(evs, i) ==
    IF i > Len(evs) THEN <<>>
    ELSE parseImplies(evs[i].implies) \o Assertions(evs, i + 1)

Asserts(ev, f, v) ==
    LET ps == parseImplies(ev.implies)
    IN  \E j \in 1..Len(ps) : ps[j] = [field |-> W(f), value |-> W(v)]

\* index in A of the first assertion of field f; 0 when f is never asserted
FirstAssertion(A, f) ==
    LET hits == {i \in 1..Len(A) : A[i].field = f}
    IN  IF hits = {} THEN 0 ELSE CHOOSE i \in hits : \A j \in hits : i <= j

\* the later assertions of f whose value differs from the first one
LaterConflicts(A, f) ==
    LET first == FirstAssertion(A, f)
    IN  {i \in 1..Len(A) : A[i].field = f /\ i > first /\ A[i].value # A[first].value}

\* the value a first assertion leaves in answers
AsAnswer(value) ==
    IF value = <<"true">> THEN Bool(TRUE)
    ELSE IF value = <<"false">> THEN Bool(FALSE)
    ELSE Str(value)

\* fields that steps 2-4 rewrite
RewrittenFields == {W("testing"), W("orm"), W("database"), W("language"), W("includeTesting")}

\* fields claim C2 is about
PlainFields(A) ==
    {A[i].field : i \in 1..Len(A)} \ (MetaFields \cup RewrittenFields)

NamesField(w, f) == Includes(w, <<"Conflicto en ", "\"">> \o f \o <<"\"">>)

TierPairs ==
    { <<"microservice", 95>>, <<"fullstack", 90>>, <<"frontend", 85>>, <<"api", 85>>,
      <<"devops", 80>>, <<"library", 60>>, <<"basic", 30>> }

\* C1: resolveDetection returns one of the seven fixed (type, confidence) pairs
\* (confidence in hundredths), and nothing else, for every evidence list and
\* either value of hasPackageJson.
C1_TierPair ==
    pc = "done" => <<type, confidence>> \in TierPairs

C1_Witness ==
    pc = "done" /\ type = "frontend" /\ confidence = 85 /\ Len(evidence) >= 2

\* C2: for every non-meta field that steps 2-4 do not rewrite, the returned
\* answers hold the value of the first assertion of the field in evidence order
\* ("true"/"false" as booleans); every later assertion of the field with a
\* different value leaves answers alone and adds a warning naming the field.
C2_FirstAssignmentWins ==
    pc \in {"type", "testing", "rename", "done"} =>
        LET A == Assertions(evidence, 1)
        IN  \A f \in PlainFields(A) :
                /\ pc = "done" => Get(answers, f) = AsAnswer(A[FirstAssertion(A, f)].value)
                /\ Cardinality({i \in 1..Len(warnings) : NamesField(warnings[i], f)})
                       >= Cardinality(LaterConflicts(A, f))

C2_Witness ==
    /\ pc = "done"
    /\ LaterConflicts(Assertions(evidence, 1), W("framework")) # {}
    /\ Get(answers, W("framework")) = Str(W("nextjs"))
    /\ Get(answers, W("includeDocker")) = Bool(TRUE)
    /\ \E i \in 1..Len(warnings) : NamesField(warnings[i], W("framework"))

MicroserviceEvidence ==
    \E i \in 1..Len(evidence) :
        /\ evidence[i].category \in {"dependency", "config-file"}
        /\ Asserts(evidence[i], "type", "microservice")

\* C3: dependency or config-file evidence asserting type=microservice always
\* yields type microservice with confidence 0.95, whatever else is present.
C3_MicroserviceFirst ==
    (pc = "done" /\ MicroserviceEvidence) => (type = "microservice" /\ confidence = 95)

C3_Witness ==
    /\ pc = "done"
    /\ MicroserviceEvidence
    /\ \E i \in 1..Len(evidence) : Asserts(evidence[i], "type", "fullstack-or-frontend")
    /\ \E i \in 1..Len(evidence) : Asserts(evidence[i], "orm", "prisma")
    /\ type = "microservice"

DependencyAsserts(f, v) ==
    \E i \in 1..Len(evidence) :
        evidence[i].category = "dependency" /\ Asserts(evidence[i], f, v)

OrmAnswer == FirstAssertion(Assertions(evidence, 1), W("orm")) # 0

DevopsHint ==
    \E i \in 1..Len(evidence) :
        evidence[i].category = "folder-structure" /\ Asserts(evidence[i], "type-hint", "devops")

ContainerMarker ==
    \E i \in 1..Len(evidence) :
        evidence[i].category = "config-file" /\ Asserts(evidence[i], "containerization", "docker")

SourceFolderHint ==
    \E i \in 1..Len(evidence) :
        /\ evidence[i].category = "folder-structure"
        /\ \/ (evidence[i].source # <<>> /\ Head(evidence[i].source) = "src/")
           \/ Asserts(evidence[i], "frontend-hint", "true")

\* the (type, confidence) the ordered rules of claim C4 give
CascadeTier ==
    IF DependencyAsserts("type", "fullstack-or-frontend") /\ OrmAnswer THEN <<"fullstack", 90>>
    ELSE IF DependencyAsserts("type", "fullstack-or-frontend") THEN <<"frontend", 85>>
    ELSE IF DependencyAsserts("type", "api") THEN <<"api", 85>>
    ELSE IF DevopsHint \/ (ContainerMarker /\ ~hasPackageJson) THEN <<"devops", 80>>
    ELSE IF hasPackageJson /\ SourceFolderHint THEN <<"library", 60>>
    ELSE <<"basic", 30>>

\* C4: without microservice evidence the type is given by the first matching
\* rule of: framework + orm -> fullstack 0.9; framework -> frontend 0.85;
\* API framework -> api 0.85; devops hint, or container marker without
\* manifest -> devops 0.8; manifest + source-folder hint -> library 0.6;
\* otherwise basic 0.3.
C4_Cascade ==
    (pc = "done" /\ ~MicroserviceEvidence) => <<type, confidence>> = CascadeTier

C4_Witness ==
    /\ pc = "done"
    /\ ~MicroserviceEvidence
    /\ DependencyAsserts("type", "fullstack-or-frontend")
    /\ DependencyAsserts("type", "api")
    /\ DevopsHint
    /\ type = "frontend"

DriverEvidence(v) ==
    \E i \in 1..Len(evidence) : Asserts(evidence[i], "database-driver", v)

FullstackDatabase ==
    LET A == Assertions(evidence, 1)
        first == FirstAssertion(A, W("orm"))
    IN  IF (first # 0 /\ A[first].value = W("mongoose")) \/ DriverEvidence("mongodb")
        THEN W("mongodb")
        ELSE IF DriverEvidence("sqlite") THEN W("sqlite")
        ELSE W("postgres")

NextAndPrisma ==
    /\ Len(evidence) = 2
    /\ evidence[1].category = "dependency"
    /\ Asserts(evidence[1], "type", "fullstack-or-frontend")
    /\ Asserts(evidence[1], "framework", "nextjs")
    /\ Asserts(evidence[2], "orm", "prisma")

\* C5: a fullstack result always has answers.database: mongodb for orm mongoose
\* or a mongodb driver, else sqlite for a sqlite driver, else postgres; a
\* framework dependency plus orm=prisma alone gives fullstack, 0.9, the
\* framework answer kept and database postgres.
C5_FullstackDatabase ==
    /\ (pc = "done" /\ type = "fullstack") =>
          Get(answers, W("database")) = Str(FullstackDatabase)
    /\ (pc = "done" /\ NextAndPrisma) =>
          /\ type = "fullstack" /\ confidence = 90
          /\ Get(answers, W("framework")) = Str(W("nextjs"))
          /\ Get(answers, W("database")) = Str(W("postgres"))

C5_Witness ==
    /\ pc = "done" /\ type = "fullstack"
    /\ \E i \in 1..Len(evidence) : Asserts(evidence[i], "orm", "mongoose")
    /\ DriverEvidence("sqlite")
    /\ Get(answers, W("database")) = Str(W("mongodb"))

-----------------------------------------------------------------------------
(* Properties of renderTemplate *)

\* the truth of a block condition in the context of the call
Holds(cond) == evaluateCondition(cond, context)

IsMarker(t) == t \in {"{{#if", "{{/if"}

\* what resolving the inner block, then the outer block, leaves of
\* {{#if a}}t1{{#if b}}inner{{/if}}t2{{/if}}
InnerFirst(t1, inner, t2) ==
    IF Holds(W("a"))
    THEN t1 \o (IF Holds(W("b")) THEN inner ELSE <<>>) \o t2
    ELSE <<>>

BlockResolved(pre, cond, body, post) ==
    pre \o (IF Holds(cond) THEN body ELSE <<>>) \o post

\* text that steps 2 and 3 leave alone: no token, no run of three newlines
PlainText(s) ==
    \A n \in 1..Len(s) : s[n] # "{{" /\ NewlineRun(s, n) < 3

\* C7: a template with a single, non-nested block keeps the body without the
\* two markers when the condition is true and loses the whole block when it is
\* false; the text before and after the block is left as it was.  Stated of the
\* text the loop of step 1 hands on, and of the returned text where steps 2
\* and 3 have nothing to rewrite.
C7_SingleBlock ==
    \A pre \in TextsBefore, cond \in BlockConditions, body \in BlockBodies, post \in TextsAfter :
        template = SingleBlock(pre, cond, body, post) =>
            LET kept == BlockResolved(pre, cond, body, post)
            IN  /\ rpc = "vars" => result = kept
                /\ (rpc = "done" /\ PlainText(kept)) => result = kept

C7_Witness ==
    /\ rpc = "done"
    /\ template = SingleBlock(<<"before", " ">>, W("a"), W("X"), <<" ", "after">>)
    /\ ~Holds(W("a"))
    /\ result = <<"before", " ", " ", "after">>

\* the text the context gives for a name: String(context[name] ?? '')
ValueOf(name) == IF W(name) \in DOMAIN context THEN context[W(name)].v ELSE <<>>

\* what a token stands for: the value of an identifier, the token itself otherwise
TokenText(name) == IF name = "1" THEN Token(name) ELSE ValueOf(name)

HasBlock(s) == \E n \in 1..Len(s) : IsMarker(s[n])

TripleNewline(s) ==
    \E n \in 1..(Len(s) - 2) : s[n] = "\n" /\ s[n + 1] = "\n" /\ s[n + 2] = "\n"

\* C12: step 2 of renderTemplate and interpolateSimple replace every
\* {{identifier}} token by the context's value for the identifier, by nothing
\* when the context has no such identifier, in one pass (a substituted value
\* is not substituted again); and interpolateSimple returns what renderTemplate
\* returns for a template without a block and without three newlines in a
\* row before or after the substitution.
C12_TokenSubstitution ==
    /\ (rpc = "collapse" \/ spc = "done") =>
        \A t1 \in {<<>>, <<"Hello", " ">>}, n1 \in TokenNames, t2 \in {W(" "), W("\n")},
           n2 \in LastTokenNames :
          template = TokenTemplate(t1, n1, t2, n2) =>
              LET expected == t1 \o TokenText(n1) \o t2 \o TokenText(n2)
              IN  /\ rpc = "collapse" => result = expected
                  /\ spc = "done" => simple = expected
    /\ (/\ rpc = "done" /\ spc = "done"
        /\ ~HasBlock(template) /\ ~TripleNewline(template) /\ ~TripleNewline(simple))
           => simple = result

C12_Witness ==
    /\ rpc = "done" /\ spc = "done"
    /\ template = TokenTemplate(<<"Hello", " ">>, "raw", W(" "), "missing")
    /\ simple = <<"Hello", " ", "{{", "name", "}}", " ">>
    /\ result = simple

\* C13: the text renderTemplate returns has no three newlines in a row: a run
\* of three or more, written in the template, left by a removed block or
\* brought by a context value, becomes exactly two, and a run of one or two
\* stays as it is.
C13_BlankLines ==
    rpc = "done" =>
        /\ ~TripleNewline(result)
        /\ \A k \in 1..MaxNewlines :
              template = W("line1") \o Newlines(k) \o W("line2") =>
                  result = W("line1") \o Newlines(IF k < 2 THEN k ELSE 2) \o W("line2")
        /\ \A cond \in BlockConditions, body \in BlockBodies :
              (/\ template = SingleBlock(<<"before", "\n", "\n">>, cond, body, <<"\n", "after">>)
               /\ ~Holds(cond))
                  => result = <<"before", "\n", "\n", "after">>
        /\ template = TokenTemplate(<<>>, "name", W("\n"), "gap") =>
              result = <<"World", "\n", "\n">>

C13_Witness ==
    /\ rpc = "done"
    /\ template = W("line1") \o Newlines(5) \o W("line2")
    /\ result = <<"line1", "\n", "\n", "line2">>

-----------------------------------------------------------------------------
(* Properties of the expression evaluator *)

\* String(c[x] ?? ''): the text x is bound to, the empty string when x is absent
BoundText(c, x) ==
    IF W(x) \notin DOMAIN c \/ c[W(x)].k \in {"undefined", "null"} THEN <<>> ELSE c[W(x)].v

\* C8: "x === 'v'" is true exactly when String(c[x] ?? '') equals v, an absent
\* x counting as the empty string, and "x !== 'v'" is its exact negation, so
\* the two forms never agree on a context.
C8_StringComparison ==
    epc = "done" =>
        \A x \in EvalIdents, sp \in Spacings, q \in QuoteLexemes, lit \in EvalLiterals :
            /\ expr = CompareExpr(x, "===", sp, q, lit) =>
                  /\ evalOut = (BoundText(evalCtx, x) = lit)
                  /\ evalOut # evaluateWhenExpression(CompareExpr(x, "!==", sp, q, lit), evalCtx)
            /\ expr = CompareExpr(x, "!==", sp, q, lit) =>
                  evalOut = (BoundText(evalCtx, x) # lit)

C8_Witness ==
    /\ epc = "done"
    /\ expr = CompareExpr("x", "===", W(" "), "'", W("undefined"))
    /\ W("x") \notin DOMAIN evalCtx
    /\ evalOut = FALSE

\* the values for which a bare identifier is false
FalseValues == {Undefined, Null, Bool(FALSE), Str(<<>>), Str(<<"false">>)}

\* C9: a bare identifier x is false exactly when c[x] is undefined (absent),
\* null, boolean false, the empty string or the string "false", and true for
\* every other value (other strings, boolean true, numbers, arrays).
C9_BareIdentifier ==
    epc = "done" =>
        \A x \in EvalIdents :
            expr = W(x) =>
                evalOut = ~(W(x) \notin DOMAIN evalCtx \/ evalCtx[W(x)] \in FalseValues)

C9_Witness ==
    /\ epc = "done"
    /\ expr = W("flag")
    /\ Get(evalCtx, W("flag")) = Num(W("0"))
    /\ evalOut = TRUE

\* C10: "x === true" / "x === false": for a native boolean the result is
\* (c[x] = expected); for any other value it is ((String(c[x]) = "true") =
\* expected), so the string "true" satisfies "x === true" and the string
\* "false" satisfies "x === false".
C10_BooleanComparison ==
    epc = "done" =>
        \A x \in EvalIdents, sp \in Spacings, b \in {"true", "false"} :
            expr = BoolExpr(x, sp, b) =>
                LET val == Get(evalCtx, W(x))
                    expected == (b = "true")
                IN  /\ val.k = "bool" => evalOut = (val.v = <<b>>)
                    /\ val.k # "bool" => evalOut = ((val.v = <<"true">>) = expected)
                    /\ (val = Str(<<b>>)) => evalOut

C10_Witness ==
    /\ epc = "done"
    /\ expr = BoolExpr("x", W(" "), "true")
    /\ Get(evalCtx, W("x")) = Str(W("true"))
    /\ evalOut = TRUE

\* C11: evaluateWhenExpression returns a boolean for every expression and
\* context. An expression in none of the three comparison forms (one using
\* &&, ||, !, parentheses or a numeric comparison, or a comparison with text
\* around it) is the truthiness of the context value stored under the whole
\* trimmed expression text: false unless the context has a true-like value
\* under exactly that text, whatever the identifiers inside it are bound to.
C11_OtherFormsAreLookups ==
    epc = "done" =>
        /\ evalOut \in BOOLEAN
        /\ \A e \in OtherExprs \ {W("x"), CompareExpr("x", "===", W(" "), "'", W("v"))} :
              expr \in {e, Padded(e)} =>
                  evalOut = (e \in DOMAIN evalCtx /\ evalCtx[e] \notin FalseValues)
        /\ \A e \in OtherExprs :
              expr = Padded(e) =>
                  evalOut = (e \in DOMAIN evalCtx /\ evalCtx[e] \notin FalseValues)

C11_Witness ==
    /\ epc = "done"
    /\ expr = <<"x", " ", "&&", " ", "flag">>
    /\ Get(evalCtx, W("x")) = Bool(TRUE)
    /\ Get(evalCtx, W("flag")) = Bool(TRUE)
    /\ evalOut = FALSE

-----------------------------------------------------------------------------
(* Properties of detectProject *)

CategoryRank(cat) ==
    IF cat = "dependency" THEN 1 ELSE IF cat = "config-file" THEN 2 ELSE 3

\* the values one piece of evidence asserts for field f
ValuesOf(ev, f) ==
    LET ps == parseImplies(ev.implies)
    IN  {ps[j].value : j \in {n \in 1..Len(ps) : ps[n].field = f}}

\* answer fields that more than one scanner can assert
SharedFields == {W("framework"), W("orm"), W("orchestration")}

\* C15: detectProject combines the three sub-scan results once all three have
\* completed, never before, and whichever of the concurrent scans completes
\* first the combined list is the dependency evidence, then the config-file
\* evidence, then the folder-structure evidence; so an answer field asserted
\* by several sources takes the value of the dependency assertion before a
\* config-file one, and of a config-file one before a folder-structure one.
C15_MergeOrder ==
    /\ dpc \in {"read", "start", "scanning"} => (evidence = <<>> /\ pc = "idle")
    /\ dpc = "resolve" =>
          LET nd == Len(depEvidence)
              nc == Len(configEvidence)
              nf == Len(folderEvidence)
          IN  /\ {completed[n] : n \in 1..Len(completed)}
                    = {"dependency", "config-file", "folder-structure"}
              /\ Len(evidence) = nd + nc + nf
              /\ \A n \in 1..nd : evidence[n] = depEvidence[n]
              /\ \A n \in 1..nc : evidence[nd + n] = configEvidence[n]
              /\ \A n \in 1..nf : evidence[nd + nc + n] = folderEvidence[n]
              /\ \A n \in 1..Len(evidence), m \in 1..Len(evidence) :
                    n < m => CategoryRank(evidence[n].category) <= CategoryRank(evidence[m].category)
    /\ (dpc = "resolve" /\ pc = "done") =>
          \A f \in SharedFields \cap DOMAIN answers :
              LET holders == {n \in 1..Len(evidence) : ValuesOf(evidence[n], f) # {}}
              IN  \E n \in holders :
                      /\ \A m \in holders :
                            CategoryRank(evidence[n].category) <= CategoryRank(evidence[m].category)
                      /\ answers[f].v \in ValuesOf(evidence[n], f)

C15_Witness ==
    /\ dpc = "resolve" /\ pc = "done"
    /\ completed = <<"dependency", "folder-structure", "config-file">>
    /\ {"nuxt.config.ts", "docker-compose.yml", "k8s"} \subseteq paths
    /\ "next" \in pkg.deps
    /\ Get(answers, W("framework")) = Str(W("nextjs"))
    /\ Get(answers, W("orchestration")) = Str(W("docker-compose"))

-----------------------------------------------------------------------------
(* Properties of steps 3 and 4 of resolveDetection *)

HasDependency(dep) == \E i \in 1..Len(evidence) : evidence[i].source = DepSource(dep)

\* the combined identifier of the unit and end-to-end tools found together
CombinedTesting ==
    IF HasDependency("vitest") /\ HasDependency("@playwright/test") THEN W("vitest-playwright")
    ELSE IF HasDependency("jest") /\ HasDependency("cypress") THEN W("jest-cypress")
    ELSE <<>>

\* the key the testing answer is returned under
TestingKey == IF type = "frontend" THEN W("includeTesting") ELSE W("testing")

\* the conflicts step 1 records for fields other than testing
OtherConflicts(A) ==
    {i \in 1..Len(A) :
        /\ A[i].field \notin MetaFields \cup {W("testing")}
        /\ i \in LaterConflicts(A, A[i].field)}

\* C16: with vitest and @playwright/test evidence (or jest and cypress
\* evidence) in the list, in any order and among any other evidence, the
\* testing answer returned (includeTesting for frontend) is the combined
\* identifier, no returned warning is a conflict about the testing field, and
\* every warning about another field is kept.
C16_TestingCombination ==
    (pc = "done" /\ CombinedTesting # <<>>) =>
        /\ Get(answers, TestingKey) = Str(CombinedTesting)
        /\ \A i \in 1..Len(warnings) : ~NamesField(warnings[i], W("testing"))
        /\ LET A == Assertions(evidence, 1)
           IN  Cardinality({i \in 1..Len(warnings) : ~NamesField(warnings[i], W("testing"))})
                   = Cardinality(OtherConflicts(A))

\* the testing answer after the combination override; <<>> when there is none
TestingAfterOverride(A) ==
    IF CombinedTesting # <<>> THEN CombinedTesting
    ELSE IF FirstAssertion(A, W("testing")) = 0 THEN <<>>
    ELSE A[FirstAssertion(A, W("testing"))].value

\* C17: a frontend result has no testing key, and the testing answer left by
\* the combination override, when there is one, is returned under
\* includeTesting; a result of any other type keeps the testing answer under
\* testing and has no includeTesting key.
C17_FrontendRename ==
    pc = "done" =>
        LET A == Assertions(evidence, 1)
            t == TestingAfterOverride(A)
        IN  IF type = "frontend"
            THEN /\ W("testing") \notin DOMAIN answers
                 /\ t # <<>> => Get(answers, W("includeTesting")) = Str(t)
            ELSE /\ W("includeTesting") \notin DOMAIN answers
                 /\ t # <<>> => Get(answers, W("testing")) = Str(t)
                 /\ t = <<>> => W("testing") \notin DOMAIN answers

C17_Witness ==
    /\ pc = "done"
    /\ type = "frontend"
    /\ HasDependency("jest") /\ HasDependency("cypress")
    /\ Get(answers, W("includeTesting")) = Str(W("jest-cypress"))
    /\ W("testing") \notin DOMAIN answers

-----------------------------------------------------------------------------
(* Properties of the microservice database *)

\* the database of a microservice by the fixed priority; <<>> for unset
MicroserviceDatabase ==
    LET A == Assertions(evidence, 1)
        first == FirstAssertion(A, W("orm"))
        orm == IF first = 0 THEN <<>> ELSE A[first].value
        anyDriver == \E v \in {"postgres", "sqlserver", "mysql", "mongodb", "sqlite"} : DriverEvidence(v)
    IN  IF orm = W("mongoose") \/ DriverEvidence("mongodb") THEN W("mongoose")
        ELSE IF orm = W("typeorm") \/ anyDriver
        THEN IF DriverEvidence("sqlserver") THEN W("typeorm-sqlserver")
             ELSE IF DriverEvidence("postgres") THEN W("typeorm-postgres")
             ELSE IF DriverEvidence("mysql") THEN W("typeorm-mysql")
             ELSE W("typeorm-postgres")
        ELSE <<>>

\* C18: a microservice result has no orm key, and its database follows a
\* fixed priority over the orm answer and the set of drivers found, wherever
\* they stand in the list: mongoose for the mongoose orm or a mongodb driver;
\* else, for the typeorm orm or any driver, typeorm-sqlserver before
\* typeorm-postgres before typeorm-mysql by the drivers found, and
\* typeorm-postgres when none of the three is; else no database.
C18_MicroserviceDatabase ==
    (pc = "done" /\ type = "microservice") =>
        /\ W("orm") \notin DOMAIN answers
        /\ MicroserviceDatabase # <<>> => Get(answers, W("database")) = Str(MicroserviceDatabase)
        /\ MicroserviceDatabase = <<>> => W("database") \notin DOMAIN answers

C18_Witness ==
    /\ pc = "done" /\ type = "microservice"
    /\ Len(evidence) = 3
    /\ Asserts(evidence[1], "database-driver", "postgres")
    /\ Asserts(evidence[2], "database-driver", "sqlserver")
    /\ Get(answers, W("database")) = Str(W("typeorm-sqlserver"))

-----------------------------------------------------------------------------
(* Properties of the answers as a whole *)

ReservedKeys == {<<"type">>, <<"type-hint">>, <<"database-driver">>}

\* C19: answers never has the key type, type-hint or database-driver, in any
\* step and in the result, whichever evidence asserts them, first or later in
\* its implies list; step 1 copies every other asserted field, so the three
\* act only through the type cascade and the database resolution.
C19_ReservedKeys ==
    /\ DOMAIN answers \cap ReservedKeys = {}
    /\ pc = "type" =>
          LET A == Assertions(evidence, 1)
          IN  DOMAIN answers = {A[i].field : i \in 1..Len(A)} \ ReservedKeys

C19_Witness ==
    /\ pc = "done"
    /\ \E i \in 1..Len(evidence) :
          /\ evidence[i].category = "folder-structure"
          /\ Len(parseImplies(evidence[i].implies)) = 2
          /\ parseImplies(evidence[i].implies)[2] = [field |-> W("type-hint"), value |-> W("devops")]
    /\ \E i \in 1..Len(evidence) : Asserts(evidence[i], "database-driver", "sqlite")
    /\ type = "devops"
    /\ DOMAIN answers = {W("iac")}

\* C20: for every evidence list each step of resolveDetection leaves a
\* well-formed state, down to the returned { type, confidence, answers,
\* warnings }, and for the empty list the result is type basic, confidence 0.3
\* (30 hundredths), no answers and no warnings, with and without a package.json.
C20_EmptyEvidence ==
    /\ pc \in {"extract", "type", "testing", "rename", "done"}
    /\ <<type, confidence>> \in TierPairs
    /\ \A f \in DOMAIN answers : answers[f].k \in {"str", "bool"}
    /\ warnings \in Seq(Seq(STRING))
    /\ (pc = "done" /\ evidence = <<>>) =>
          /\ type = "basic"
          /\ confidence = 30
          /\ answers = EmptyObject
          /\ warnings = <<>>

C20_Witness ==
    /\ pc = "done"
    /\ evidence = <<>>
    /\ hasPackageJson
    /\ type = "basic"

-----------------------------------------------------------------------------
(* Step 1 of resolveDetection: repeated assertions *)

\* the later assertions of f that repeat the value of the first one
LaterRepeats(A, f) ==
    LET first == FirstAssertion(A, f)
    IN  {i \in 1..Len(A) : A[i].field = f /\ i > first /\ A[i].value = A[first].value}

\* the non-meta fields the evidence asserts
AssertedFields(A) ==
    {A[i].field : i \in 1..Len(A)} \ MetaFields

\* the warnings of step 1 that name field f
WarningsOn(f) ==
    {i \in 1..Len(warnings) : NamesField(warnings[i], f)}

-----------------------------------------------------------------------------
(* renderTemplate on deeply nested blocks *)

\* deepest nesting of the templates below
MaxDepth == 6

\* n opening markers, the text X, n closing markers
RECURSIVE Nest(_, _)
Nest(n, cond) ==
    IF n = 0 THEN W("X")
    ELSE IfOpen(cond) \o Nest(n - 1, cond) \o IfClose

\* a block whose body is a token, then a token whose value is the text of a block
BlockThenToken == IfOpen(W("a")) \o Token("name") \o IfClose \o Token("raw")

DeepTemplates ==
    {Nest(n, W(x)) : n \in 1..MaxDepth, x \in {"a", "b"}} \cup {Token("raw"), BlockThenToken}

\* every context binds raw to the text "{{#if a}}X{{/if}}"
DeepContexts ==
    {Put(c, W("raw"), Str(Nest(1, W("a")))) : c \in RenderContexts}

InitRenderDeep ==
    /\ template \in DeepTemplates
    /\ context \in DeepContexts
    /\ result = template
    /\ pass = 0
    /\ rpc = "blocks"
    /\ simple = <<>>
    /\ spc = "call"
    /\ IdleResolver
    /\ IdleEval
    /\ IdleDetect
    /\ IdleValidator
    /\ IdleLoader

SpecRenderDeep == InitRenderDeep /\ [][NextRender]_vars

\* the positions of renderTemplate, in program order
RenderOrder(p) ==
    CASE p = "blocks" -> 1
      [] p = "vars" -> 2
      [] p = "collapse" -> 3
      [] OTHER -> 4

\* C27: the loop of step 1 performs at most 5 passes: a pass that changes the
\* text is counted and followed by another one only below the limit, a pass
\* that leaves the text unchanged ends the loop; substitution and collapse
\* then run once each, in this order, so a block that a token value brings in
\* is never evaluated.
C27_LoopTerminates ==
    /\ [](/\ pass \in 0..MaxPasses
          /\ rpc = "blocks" => pass < MaxPasses
          /\ (rpc = "done" /\ template = Token("raw")) => result = Nest(1, W("a")))
    /\ [][/\ rpc = "blocks" =>
                \/ rpc' = "blocks" /\ result' # result /\ pass' = pass + 1
                \/ rpc' = "vars" /\ result' = result /\ pass' = pass
                \/ rpc' = "vars" /\ result' # result /\ pass' = MaxPasses
          /\ rpc # "blocks" => pass' = pass
          /\ rpc \in {"vars", "collapse"} => RenderOrder(rpc') = RenderOrder(rpc) + 1
          /\ rpc = "done" => rpc' = "done" /\ result' = result]_vars

\* five passes have run and the innermost block of six is still in the text
C27_Witness ==
    /\ rpc = "done"
    /\ pass = MaxPasses
    /\ template = Nest(MaxDepth, W("a"))
    /\ HasBlock(result)

-----------------------------------------------------------------------------
(* detectProject on a directory that cannot be fully read *)

\* the source of the evidence a path of FaultyPaths stands for
PathSource(p) ==
    CASE p = "nuxt.config.ts" -> W("nuxt.config.ts")
      [] p = "k8s" -> W("k8s/")
      [] OTHER -> <<"*.tf", " ", "files">>

HasSource(src) == \E i \in 1..Len(evidence) : evidence[i].source = src

ManifestLost == manifest = NoPackage \/ "package.json" \in faults

\* C25: in the evidence detectProject hands to the resolver, a manifest that is
\* missing or cannot be read or parsed gives no dependency evidence and
\* hasPackageJson false; a path whose access fails, and the listing when
\* readdir fails, give no evidence; every other check still gives its evidence.
C25_FaultTolerance ==
    dpc = "resolve" =>
        /\ pc \in {"extract", "type", "testing", "rename", "done"}
        /\ hasPackageJson = ~ManifestLost
        /\ ManifestLost => \A i \in 1..Len(evidence) : evidence[i].category # "dependency"
        /\ ~ManifestLost => \A dep \in manifest.deps : HasSource(DepSource(dep))
        /\ \A p \in {"nuxt.config.ts", "k8s"} : HasSource(PathSource(p)) <=> p \in paths \ faults
        /\ HasSource(PathSource("main.tf")) <=> ("main.tf" \in paths /\ "." \notin faults)

C25_Witness ==
    /\ pc = "done"
    /\ dpc = "resolve"
    /\ manifest = Package(FaultyDeps)
    /\ paths = FaultyPaths
    /\ faults = {"package.json", "k8s"}
    /\ Len(evidence) = 2
    /\ HasSource(PathSource("nuxt.config.ts"))
    /\ ~hasPackageJson

-----------------------------------------------------------------------------
(* validateCustomTemplate, src/unnamed/part_007 *)

VALID_QUESTION_TYPES == <<W("select"), W("input"), W("confirm"), W("multiselect")>>

\* WHEN_PATTERN = /^(\w+)(\s*(===|!==)\s*(['"].+['"]|true|false)\s*)?$/ tested on e
WHEN_PATTERN(e) ==
    IF e = <<>> \/ e[1] \notin WordLexemes THEN FALSE
    ELSE IF Len(e) = 1 THEN TRUE
    ELSE LET i == SkipSpaces(e, 2)
             j == SkipSpaces(e, i + 1)
             closers == {q \in (j + 2)..Len(e) :
                            e[q] \in QuoteLexemes /\ SkipSpaces(e, q + 1) = Len(e) + 1}
         IN  /\ i <= Len(e) /\ e[i] \in {"===", "!=="}
             /\ j <= Len(e)
             /\ \/ /\ e[j] \in QuoteLexemes
                   /\ \E q \in closers : \A n \in (j + 1)..(q - 1) : e[n] # "\n"
                \/ e[j] \in {"true", "false"} /\ SkipSpaces(e, j + 1) = Len(e) + 1

\* "x" in double quotes, as the messages write a field
Quoted(x) == <<"\"">> \o x \o <<"\"">>

\* the lexemes /\.(ya?ml)$/i matches at the end of a file name
YamlExtensions == {".yaml", ".yml", ".YAML", ".Yml"}

\* filePath.replace(/\\/g, '/').split('/').pop(): what follows the last separator
RECURSIVE LastSegment(_)
LastSegment(p) ==
    IF p = <<>> THEN <<>>
    ELSE IF p[Len(p)] \in {"/", "\\"} THEN <<>>
    ELSE LastSegment(SubSeq(p, 1, Len(p) - 1)) \o <<p[Len(p)]>>

\* filename.replace(/\.(ya?ml)$/i, '')
StripYaml(filename) ==
    IF filename # <<>> /\ filename[Len(filename)] \in YamlExtensions
    THEN SubSeq(filename, 1, Len(filename) - 1)
    ELSE filename

\* the keys of a set of keys as a sequence
RECURSIVE KeySeq(_)
KeySeq(keys) ==
    IF keys = {} THEN <<>>
    ELSE LET key == CHOOSE x \in keys : TRUE
         IN  <<key>> \o KeySeq(keys \ {key})

\* Object.entries(val): [key, value] for the own keys of an object or the indices of an array
Entries(val) ==
    IF val.k = "obj"
    THEN LET keys == KeySeq(DOMAIN val.v)
         IN  [n \in 1..Len(keys) |-> [key |-> keys[n], val |-> val.v[keys[n]]]]
    ELSE IF val.k = "arr"
    THEN [n \in 1..Len(val.v) |-> [key |-> W(ToString(n - 1)), val |-> val.v[n]]]
    ELSE <<>>

\* the sequences of ss one after the other
RECURSIVE Concat(_)
Concat(ss) == IF ss = <<>> THEN <<>> ELSE Head(ss) \o Concat(Tail(ss))

\* lines 24-38: name, description, version, author
FieldErrors(obj) ==
    (IF ~Truthy(Prop(obj, W("name"))) \/ TypeOf(Prop(obj, W("name"))) # "string"
     THEN <<<<"Missing or invalid ">> \o Quoted(W("name")) \o <<" field (must be a string)">>>>
     ELSE <<>>)
    \o (IF ~Truthy(Prop(obj, W("description"))) \/ TypeOf(Prop(obj, W("description"))) # "string"
        THEN <<<<"Missing or invalid ">> \o Quoted(W("description"))
                   \o <<" field (must be a string)">>>>
        ELSE <<>>)
    \o (IF Prop(obj, W("version")) # Undefined /\ TypeOf(Prop(obj, W("version"))) # "string"
        THEN <<Quoted(W("version")) \o <<" must be a string if provided">>>>
        ELSE <<>>)
    \o (IF Prop(obj, W("author")) # Undefined /\ TypeOf(Prop(obj, W("author"))) # "string"
        THEN <<Quoted(W("author")) \o <<" must be a string if provided">>>>
        ELSE <<>>)

\* lines 51-62 for one of the optional sub-directories
DirErrors(content, dir) ==
    LET dirContent == Prop(content, W(dir))
        entries == Entries(dirContent)
    IN  IF dirContent = Undefined THEN <<>>
        ELSE IF TypeOf(dirContent) # "object" \/ dirContent = Null
        THEN <<Quoted(<<"content", ".", dir>>)
                   \o <<" must be an object mapping filenames to template strings">>>>
        ELSE Concat([n \in 1..Len(entries) |->
                        IF TypeOf(entries[n].val) # "string"
                        THEN <<Quoted(<<"content", ".", dir>> \o entries[n].key)
                                   \o <<" must be a string">>>>
                        ELSE <<>>])

\* lines 41-64 with the SKILL.md check of lines 45-47 left out
ContentErrors_NoSkillCheck(obj) ==
    LET content == Prop(obj, W("content"))
    IN  IF ~Truthy(content) \/ TypeOf(content) # "object"
        THEN <<<<"Missing or invalid ">> \o Quoted(W("content"))
                   \o <<" field (must be an object)">>>>
        ELSE DirErrors(content, "references/") \o DirErrors(content, "scripts/")
                 \o DirErrors(content, "assets/")

\* lines 41-64: content and content["SKILL.md"]
ContentErrors(obj) ==
    LET content == Prop(obj, W("content"))
        skill == Prop(content, W("SKILL.md"))
    IN  IF ~Truthy(content) \/ TypeOf(content) # "object"
        THEN <<<<"Missing or invalid ">> \o Quoted(W("content"))
                   \o <<" field (must be an object)">>>>
        ELSE (IF ~Truthy(skill) \/ TypeOf(skill) # "string"
              THEN <<<<"Missing or invalid ">> \o Quoted(<<"content", ".", "SKILL.md">>)
                         \o <<" (must be a non-empty string)">>>>
              ELSE <<>>)
             \o DirErrors(content, "references/") \o DirErrors(content, "scripts/")
             \o DirErrors(content, "assets/")

\* `questions[${i}]`, i counted from 0
Prefix(i) == <<"questions[", ToString(i - 1), "]">>

\* lines 99-110: choices of a select or multiselect question
ChoiceErrors(q, i) ==
    LET choices == Prop(q, W("choices"))
    IN  IF Prop(q, W("type")) \notin {Str(W("select")), Str(W("multiselect"))} THEN <<>>
        ELSE IF ~Truthy(choices) \/ choices.k # "arr" \/ Len(choices.v) = 0
        THEN <<Prefix(i) \o <<": ">> \o Quoted(W("choices"))
                   \o <<" required and must be non-empty for ">> \o Prop(q, W("type")).v>>
        ELSE Concat([j \in 1..Len(choices.v) |->
                        LET c == choices.v[j]
                        IN  IF \/ ~Truthy(c) \/ TypeOf(c) # "object"
                               \/ ~Truthy(Prop(c, W("name"))) \/ ~Truthy(Prop(c, W("value")))
                            THEN <<Prefix(i) \o <<".choices[", ToString(j - 1), "]",
                                                  ": must have ">> \o Quoted(W("name"))
                                       \o <<" and ">> \o Quoted(W("value"))>>
                            ELSE <<>>])

\* lines 113-119 reporting an expression outside WHEN_PATTERN as an error
WhenFindings_Strict(q, i) ==
    LET when == Prop(q, W("when"))
    IN  IF when = Undefined THEN [errors |-> <<>>, warnings |-> <<>>]
        ELSE IF TypeOf(when) # "string" \/ ~WHEN_PATTERN(Trim(when.v))
        THEN [errors |-> <<Prefix(i) \o <<": ">> \o Quoted(W("when"))
                               \o <<" must be a string expression">>>>,
              warnings |-> <<>>]
        ELSE [errors |-> <<>>, warnings |-> <<>>]

\* lines 113-119: the when expression of a question
WhenFindings(q, i) ==
    LET when == Prop(q, W("when"))
    IN  IF when = Undefined THEN [errors |-> <<>>, warnings |-> <<>>]
        ELSE IF TypeOf(when) # "string"
        THEN [errors |-> <<Prefix(i) \o <<": ">> \o Quoted(W("when"))
                               \o <<" must be a string expression">>>>,
              warnings |-> <<>>]
        ELSE IF ~WHEN_PATTERN(Trim(when.v))
        THEN [errors |-> <<>>,
              warnings |-> <<Prefix(i) \o <<": ">> \o Quoted(W("when")) \o <<" expression ">>
                                 \o Quoted(when.v) \o <<" may not be parseable">>>>]
        ELSE [errors |-> <<>>, warnings |-> <<>>]

\* lines 73-119: the findings on questions[i - 1], given the names defined so far
CheckQuestion(q, i, names) ==
    IF ~Truthy(q) \/ TypeOf(q) # "object"
    THEN [errors |-> <<Prefix(i) \o <<": must be an object">>>>, warnings |-> <<>>,
          names |-> names]
    ELSE LET name == Prop(q, W("name"))
             badName == ~Truthy(name) \/ TypeOf(name) # "string"
             message == Prop(q, W("message"))
             qtype == Prop(q, W("type"))
             when == WhenFindings(q, i)
         IN  [errors |->
                  (IF badName
                   THEN <<Prefix(i) \o <<": missing or invalid ">> \o Quoted(W("name"))>>
                   ELSE <<>>)
                  \o (IF ~Truthy(message) \/ TypeOf(message) # "string"
                      THEN <<Prefix(i) \o <<": missing or invalid ">> \o Quoted(W("message"))>>
                      ELSE <<>>)
                  \o (IF \/ ~Truthy(qtype)
                         \/ ~\E n \in 1..Len(VALID_QUESTION_TYPES) :
                                qtype = Str(VALID_QUESTION_TYPES[n])
                      THEN <<Prefix(i) \o <<": invalid ">> \o Quoted(W("type"))
                                 \o <<" (must be one of: select, input, confirm, multiselect)">>>>
                      ELSE <<>>)
                  \o ChoiceErrors(q, i)
                  \o when.errors,
              warnings |->
                  (IF ~badName /\ name.v \in names
                   THEN <<Prefix(i) \o <<": duplicate question name ">> \o Quoted(name.v)>>
                   ELSE <<>>)
                  \o when.warnings,
              names |-> IF badName THEN names ELSE names \cup {name.v}]

\* the loop of lines 72-120 from questions[i - 1] on
RECURSIVE CheckQuestions(_, _, _)
CheckQuestions(qs, i, names) ==
    IF i > Len(qs) THEN [errors |-> <<>>, warnings |-> <<>>]
    ELSE LET one == CheckQuestion(qs[i], i, names)
             others == CheckQuestions(qs, i + 1, one.names)
         IN  [errors |-> one.errors \o others.errors,
              warnings |-> one.warnings \o others.warnings]

\* lines 67-122: questions
QuestionFindings(obj) ==
    LET questions == Prop(obj, W("questions"))
    IN  IF questions = Undefined THEN [errors |-> <<>>, warnings |-> <<>>]
        ELSE IF questions.k # "arr"
        THEN [errors |-> <<Quoted(W("questions")) \o <<" must be an array">>>>,
              warnings |-> <<>>]
        ELSE CheckQuestions(questions.v, 1, {})

\* lines 125-135: variables
VariableErrors(obj) ==
    LET variables == Prop(obj, W("variables"))
        entries == Entries(variables)
    IN  IF variables = Undefined THEN <<>>
        ELSE IF TypeOf(variables) # "object" \/ variables = Null \/ variables.k = "arr"
        THEN <<Quoted(W("variables"))
                   \o <<" must be an object mapping names to template strings">>>>
        ELSE Concat([n \in 1..Len(entries) |->
                        IF TypeOf(entries[n].val) # "string"
                        THEN <<<<"variables", ".">> \o entries[n].key
                                   \o <<": must be a string">>>>
                        ELSE <<>>])

\* validateCustomTemplate(raw, filePath)
validateCustomTemplate(obj, path) ==
    IF ~Truthy(obj) \/ TypeOf(obj) # "object"
    THEN [valid |-> FALSE, errors |-> <<W("Template must be a YAML object")>>,
          warnings |-> <<>>, templateId |-> Undefined]
    ELSE LET templateId == StripYaml(LastSegment(path))
             questions == QuestionFindings(obj)
             errors == FieldErrors(obj) \o ContentErrors(obj) \o questions.errors
                           \o VariableErrors(obj)
         IN  [valid |-> errors = <<>>,
              errors |-> errors,
              warnings |-> questions.warnings,
              templateId |-> IF errors = <<>> THEN Str(templateId) ELSE Undefined]

\* the object o with key set to val, left alone when val is undefined (the key is absent)
With(o, key, val) == IF val = Undefined THEN o ELSE Put(o, key, val)

TemplateNames == {Undefined, Str(<<>>), Str(<<"My", " ", "Template">>), Num(W("1"))}
Descriptions == {Undefined, Str(<<"A", " ", "template">>)}
\* version and author
OptionalFields ==
    {<<Undefined, Undefined>>, <<Str(W("1.0.0")), Str(W("me"))>>, <<Num(W("1")), Undefined>>,
     <<Undefined, Bool(TRUE)>>}
SkillBodies == {Undefined, Str(<<>>), Str(<<"#", " ", "{{", "name", "}}">>), Num(W("1"))}
DirValues ==
    {Undefined, Null, Str(W("text")), Obj(Put(EmptyObject, W("a.md"), Str(W("text")))),
     Obj(Put(EmptyObject, W("a.md"), Num(W("1"))))}
ContentValues ==
    {Undefined, Null, Str(W("text")), Arr(<<>>)}
    \cup {Obj(With(With(EmptyObject, W("SKILL.md"), s), W("references/"), dir)) :
             s \in SkillBodies, dir \in DirValues}
VariableValues ==
    {Undefined, Null, Arr(<<>>), Obj(Put(EmptyObject, W("title"), Str(<<"{{", "name", "}}">>))),
     Obj(Put(EmptyObject, W("title"), Num(W("1"))))}

RawTemplate(name, description, optional, content, questions, variables) ==
    Obj(With(With(With(With(With(With(With(EmptyObject,
        W("name"), name), W("description"), description), W("version"), optional[1]),
        W("author"), optional[2]), W("content"), content), W("questions"), questions),
        W("variables"), variables))

\* a template with every required field, and the questions given
GoodTemplate(questions) ==
    RawTemplate(Str(<<"My", " ", "Template">>), Str(<<"A", " ", "template">>),
                <<Undefined, Undefined>>,
                Obj(Put(EmptyObject, W("SKILL.md"), Str(<<"#", " ", "{{", "name", "}}">>))),
                questions, Undefined)

\* what yaml.load returns that is not a mapping
RawScalars == {Undefined, Null, Str(W("text")), Num(W("1")), Bool(FALSE), Arr(<<>>)}

\* raw templates that differ in the top-level fields
FieldTemplates(names, contents) ==
    {RawTemplate(name, description, optional, content, questions, variables) :
        name \in names, description \in Descriptions, optional \in OptionalFields,
        content \in contents, questions \in {Undefined, Str(W("none")), Arr(<<>>)},
        variables \in VariableValues}

Question(name, message, qtype, choices, when) ==
    Obj(With(With(With(With(With(EmptyObject,
        W("name"), name), W("message"), message), W("type"), qtype), W("choices"), choices),
        W("when"), when))

Choice(name, value) == Obj(With(With(EmptyObject, W("name"), name), W("value"), value))

\* type and choices of a question
TypeAndChoices ==
    {<<Str(W("input")), Undefined>>, <<Str(W("select")), Undefined>>,
     <<Str(W("select")), Arr(<<>>)>>,
     <<Str(W("select")), Arr(<<Choice(Str(W("Postgres")), Str(W("postgres")))>>)>>,
     <<Str(W("select")), Arr(<<Choice(Str(W("Postgres")), Undefined)>>)>>,
     <<Str(W("multiselect")), Str(W("text"))>>, <<Str(W("multiselect")), Undefined>>,
     <<Str(W("checkbox")), Undefined>>, <<Undefined, Undefined>>}

Ask == Str(<<"Which", " ", "one?">>)

\* the entries of a questions array: the question q1 of type input with one deviation
Questions ==
    {Null, Str(W("text"))}
    \cup {Question(name, Ask, Str(W("input")), Undefined, Undefined) :
             name \in {Str(W("q1")), Str(W("q2")), Undefined}}
    \cup {Question(Str(W("q1")), Undefined, Str(W("input")), Undefined, Undefined)}
    \cup {Question(Str(W("q1")), Ask, tc[1], tc[2], Undefined) : tc \in TypeAndChoices}
    \cup {Question(Str(W("q1")), Ask, Str(W("input")), Undefined, when) :
             when \in {Bool(TRUE), Str(W("x")), Str(<<"x", " ", "&&", " ", "flag">>)}}

\* the questions arrays of 1 to longest entries
QuestionLists(longest) == UNION { [1..n -> Questions] : n \in 1..longest }

\* when expressions: those of the evaluator's inputs, comparisons with !== true
\* and !== false, the empty string, a number, two comparisons joined by ||
WhenExprs ==
    EvalExprs
    \cup {<<x>> \o sp \o <<"!==">> \o sp \o <<b>> :
             x \in EvalIdents, sp \in Spacings, b \in {"true", "false"}}
    \cup {<<>>, W("1"),
          <<"x", " ", "===", " ", "'", "a", "'", " ", "||", " ", "flag", " ", "===", " ",
            "'", "b", "'">>}

WhenTemplates ==
    {GoodTemplate(Arr(<<Question(Str(W("q1")), Ask, Str(W("input")), Undefined, Str(e))>>)) :
        e \in WhenExprs}

FilePaths ==
    {<<"templates", "/", "my-api", ".yaml">>, <<"C:", "\\", "t", "\\", "x", ".YAML">>,
     <<"notes", ".txt">>, <<".yml">>}

ValidatorInputs(filePaths) ==
    {[raw |-> r, path |-> p] :
        r \in RawScalars \cup FieldTemplates(TemplateNames, ContentValues), p \in filePaths}
    \cup {[raw |-> GoodTemplate(Arr(qs)), path |-> <<"templates", "/", "my-api", ".yaml">>] :
             qs \in QuestionLists(MaxQuestions)}
    \cup {[raw |-> r, path |-> <<"x", ".yml">>] : r \in WhenTemplates}

\* the call validateCustomTemplate(raw, filePath)
InitValidate ==
    /\ \E input \in ValidatorInputs(FilePaths) : raw = input.raw /\ filePath = input.path
    /\ validation = NoValidation
    /\ vpc = "call"
    /\ IdleResolver
    /\ IdleRender
    /\ IdleEval
    /\ IdleDetect
    /\ IdleLoader

\* lines 10-142: the checks run to the end and the record is returned
Validate ==
    /\ vpc = "call"
    /\ validation' = validateCustomTemplate(raw, filePath)
    /\ vpc' = "done"
    /\ UNCHANGED <<raw, filePath, resolverVars, renderVars, evalVars, detectVars, loaderVars>>

NextValidate == Validate

SpecValidate == InitValidate /\ [][NextValidate]_vars

-----------------------------------------------------------------------------
(* Properties of validateCustomTemplate *)

Mentions(msg, word) == \E n \in 1..Len(msg) : msg[n] = word

SomeErrorMentions(word) ==
    \E n \in 1..Len(validation.errors) : Mentions(validation.errors[n], word)

IsRawObject(r) == r.k \in {"obj", "arr"}

ContentIsObject(r) == Prop(r, W("content")).k \in {"obj", "arr"}

\* content["SKILL.md"] is a non-empty string
HasSkill(r) ==
    LET skill == Prop(Prop(r, W("content")), W("SKILL.md"))
    IN  skill.k = "str" /\ skill.v # <<>>

NonEmptyString(val) == val.k = "str" /\ val.v # <<>>

\* the entries of raw.questions when it is an array
QuestionsOf(r) ==
    IF Prop(r, W("questions")).k = "arr" THEN Prop(r, W("questions")).v ELSE <<>>

\* a select or multiselect question whose choices are missing or an empty array
LacksChoices(q) ==
    /\ Prop(q, W("type")) \in {Str(W("select")), Str(W("multiselect"))}
    /\ Prop(q, W("choices")) \in {Undefined, Arr(<<>>)}

\* what claim C21 says besides the wording of the SKILL.md error
C21_Rest ==
    /\ validation.valid \in BOOLEAN
    /\ ~IsRawObject(raw) => ~validation.valid /\ Len(validation.errors) = 1
    /\ (\E n \in 1..Len(QuestionsOf(raw)) : LacksChoices(QuestionsOf(raw)[n]))
           => ~validation.valid /\ SomeErrorMentions("choices")
    /\ IsRawObject(raw) =>
           /\ ~NonEmptyString(Prop(raw, W("name"))) => SomeErrorMentions("name")
           /\ ~NonEmptyString(Prop(raw, W("description"))) => SomeErrorMentions("description")
           /\ Prop(raw, W("version")).k \notin {"undefined", "str"} => SomeErrorMentions("version")
           /\ Prop(raw, W("author")).k \notin {"undefined", "str"} => SomeErrorMentions("author")
           /\ Prop(raw, W("questions")).k \notin {"undefined", "arr"}
                  => SomeErrorMentions("questions")
           /\ Prop(raw, W("variables")).k \notin {"undefined", "obj"}
                  => SomeErrorMentions("variables")

\* C21 as the spec words it: every raw object without a non-empty string
\* content["SKILL.md"] is rejected with an error that mentions SKILL.md.
C21_AsClaimed ==
    vpc = "done" =>
        /\ (IsRawObject(raw) /\ ~HasSkill(raw))
               => ~validation.valid /\ SomeErrorMentions("SKILL.md")
        /\ C21_Rest

\* C21: validateCustomTemplate returns a record for every input; a raw object
\* without a non-empty string content["SKILL.md"] is invalid, with an error
\* that mentions SKILL.md when content is an object and one that mentions
\* content when content is missing or not an object; a select or multiselect
\* question with missing or empty choices and a non-object input are invalid;
\* every failing top-level field has its error in the same result.
C21_StructuralFailures ==
    vpc = "done" =>
        /\ (IsRawObject(raw) /\ ~HasSkill(raw)) =>
               /\ ~validation.valid
               /\ IF ContentIsObject(raw) THEN SomeErrorMentions("SKILL.md")
                  ELSE SomeErrorMentions("content") /\ ~SomeErrorMentions("SKILL.md")
        /\ C21_Rest

\* content is an object without SKILL.md; name and variables fail as well
C21_Witness ==
    /\ vpc = "done"
    /\ ContentIsObject(raw) /\ Prop(Prop(raw, W("content")), W("SKILL.md")) = Undefined
    /\ SomeErrorMentions("SKILL.md")
    /\ SomeErrorMentions("name")
    /\ SomeErrorMentions("variables")
    /\ Len(validation.errors) >= 4

\* a question on which the validator has nothing but warnings to report
WellFormedQuestion(q) ==
    /\ q.k = "obj"
    /\ NonEmptyString(Prop(q, W("name")))
    /\ NonEmptyString(Prop(q, W("message")))
    /\ \E n \in 1..Len(VALID_QUESTION_TYPES) : Prop(q, W("type")) = Str(VALID_QUESTION_TYPES[n])
    /\ Prop(q, W("type")) \in {Str(W("select")), Str(W("multiselect"))} =>
           /\ Prop(q, W("choices")).k = "arr"
           /\ Prop(q, W("choices")).v # <<>>
           /\ \A j \in 1..Len(Prop(q, W("choices")).v) :
                  LET c == Prop(q, W("choices")).v[j]
                  IN  NonEmptyString(Prop(c, W("name"))) /\ NonEmptyString(Prop(c, W("value")))
    /\ Prop(q, W("when")).k \in {"undefined", "str"}

\* questions[i - 1] has the name of an earlier question
DuplicateName(qs, i) ==
    /\ NonEmptyString(Prop(qs[i], W("name")))
    /\ \E j \in 1..(i - 1) : Prop(qs[j], W("name")) = Prop(qs[i], W("name"))

WarningAt(i, text) ==
    \E n \in 1..Len(validation.warnings) :
        /\ StartsWith(validation.warnings[n], Prefix(i))
        /\ Mentions(validation.warnings[n], text)

ErrorAt(i, text) ==
    \E n \in 1..Len(validation.errors) :
        /\ StartsWith(validation.errors[n], Prefix(i))
        /\ Mentions(validation.errors[n], text)

\* C22: in every returned record valid is true exactly when errors is empty
\* and templateId is present exactly when valid is true; a duplicate question
\* name is reported as a warning and never as an error, a string when is never
\* reported as an error, and a template whose questions are all well formed is
\* valid whatever warnings it gets.
C22_ValidIffNoErrors ==
    vpc = "done" =>
        LET qs == QuestionsOf(raw)
        IN  /\ validation.valid <=> validation.errors = <<>>
            /\ validation.templateId # Undefined <=> validation.valid
            /\ validation.valid => validation.templateId = Str(StripYaml(LastSegment(filePath)))
            /\ \A i \in 1..Len(qs) :
                   /\ DuplicateName(qs, i) => WarningAt(i, ": duplicate question name ")
                   /\ ~ErrorAt(i, ": duplicate question name ")
                   /\ Prop(qs[i], W("when")).k = "str" => ~ErrorAt(i, "when")
            /\ (raw = GoodTemplate(Prop(raw, W("questions")))
                /\ Prop(raw, W("questions")).k \in {"undefined", "arr"}
                /\ \A i \in 1..Len(qs) : WellFormedQuestion(qs[i])) => validation.valid

\* a valid template with two warnings: a duplicate name and a when that is not parseable
C22_Witness ==
    /\ vpc = "done"
    /\ validation.valid
    /\ validation.templateId = Str(W("my-api"))
    /\ Len(QuestionsOf(raw)) = 2
    /\ WarningAt(2, ": duplicate question name ")
    /\ WarningAt(2, " may not be parseable")

\* the rule evaluateCondition applies to e: its three patterns in order, then the lookup
RuleOf(e) ==
    IF MatchCompare(e, "===").ok THEN "equal"
    ELSE IF MatchCompare(e, "!==").ok THEN "not-equal"
    ELSE IF MatchBool(e).ok THEN "boolean"
    ELSE "lookup"

\* e is a bare identifier, which the evaluator looks up after trimming
BareIdentifier(e) == Len(Trim(e)) = 1 /\ Trim(e)[1] \in WordLexemes

\* e is in the grammar the evaluator supports
InGrammar(e) == RuleOf(e) # "lookup" \/ BareIdentifier(e)

\* C23: a string when is never an error, and it gets a warning exactly when
\* the evaluator has no rule for it, that is when evaluateWhenExpression would
\* take it for the name of a context key although it is not a bare identifier.
C23_WarningIffUnsupported ==
    vpc = "done" =>
        LET qs == QuestionsOf(raw)
        IN  \A i \in 1..Len(qs) :
                LET when == Prop(qs[i], W("when"))
                IN  /\ when.k = "str" =>
                           /\ ~ErrorAt(i, "when")
                           /\ WarningAt(i, " may not be parseable") <=> ~InGrammar(when.v)
                    /\ (qs[i].k = "obj" /\ when.k \notin {"undefined", "str"})
                           => ErrorAt(i, "when")

-----------------------------------------------------------------------------
(* loadCustomTemplates, src/src/custom-templates/loader.ts *)

\* path.join(dir, '') of the two template directories
GLOBAL_DIR == <<"~/.skill-generator/templates", "/">>
PROJECT_DIR == <<"./.skill-generator/templates", "/">>

\* a file of a template directory: its name, whether it can be read and
\* parsed, what yaml.load returns for it, whether a companion script exports variables
File(filename, read, parsed, companion) ==
    [filename |-> filename, read |-> read, parsed |-> parsed, companion |-> companion]

Directory(files) == [readable |-> TRUE, files |-> files]

\* errors.join('; ')
RECURSIVE Join(_, _)
Join(msgs, sep) ==
    IF msgs = <<>> THEN <<>>
    ELSE IF Len(msgs) = 1 THEN msgs[1]
    ELSE msgs[1] \o <<sep>> \o Join(Tail(msgs), sep)

\* lines 75-95: the config built from a valid file
TemplateConfig(dirPath, f) ==
    [id |-> StripYaml(f.filename),
     name |-> Prop(f.parsed, W("name")),
     description |-> Prop(f.parsed, W("description")),
     version |-> Prop(f.parsed, W("version")),
     author |-> Prop(f.parsed, W("author")),
     sourcePath |-> dirPath \o f.filename,
     isCustom |-> TRUE,
     questions |-> IF Prop(f.parsed, W("questions")) \in {Undefined, Null} THEN Arr(<<>>)
                   ELSE Prop(f.parsed, W("questions")),
     variables |-> IF Prop(f.parsed, W("variables")) \in {Undefined, Null} THEN Obj(EmptyObject)
                   ELSE Prop(f.parsed, W("variables")),
     content |-> Prop(f.parsed, W("content")),
     jsVariables |-> IF f.companion THEN Str(W("variables")) ELSE Undefined]

\* lines 63-101: one file of the directory, appended to what is loaded so far
LoadFile(loaded, dirPath, f) ==
    IF f.read = "unreadable"
    THEN [loaded EXCEPT !.errors =
             Append(@, f.filename \o <<": ", "EACCES: permission denied">>)]
    ELSE IF f.read = "unparsable"
    THEN [loaded EXCEPT !.errors =
             Append(@, f.filename \o <<": ", "bad indentation of a mapping entry">>)]
    ELSE LET checked == validateCustomTemplate(f.parsed, dirPath \o f.filename)
         IN  IF ~checked.valid
             THEN [loaded EXCEPT !.errors =
                      Append(@, f.filename \o <<": ">> \o Join(checked.errors, "; "))]
             ELSE [loaded EXCEPT !.templates = Append(@, TemplateConfig(dirPath, f))]

RECURSIVE LoadFiles(_, _, _, _)
LoadFiles(loaded, dirPath, files, i) ==
    IF i > Len(files) THEN loaded
    ELSE LoadFiles(LoadFile(loaded, dirPath, files[i]), dirPath, files, i + 1)

\* the loop of lines 62-102 ending at the first file that fails
RECURSIVE LoadFiles_StopAtFailure(_, _, _, _)
LoadFiles_StopAtFailure(loaded, dirPath, files, i) ==
    IF i > Len(files) \/ loaded.errors # <<>> THEN loaded
    ELSE LoadFiles_StopAtFailure(LoadFile(loaded, dirPath, files[i]), dirPath, files, i + 1)

\* loadCustomTemplatesFromDir with the try/catch around the whole loop
loadCustomTemplatesFromDir_StopAtFailure(dir, dirPath) ==
    IF ~dir.readable THEN [templates |-> <<>>, errors |-> <<>>]
    ELSE LET yamlFiles == SelectSeq(dir.files,
                              LAMBDA f : f.filename[Len(f.filename)] \in YamlExtensions)
         IN  LoadFiles_StopAtFailure([templates |-> <<>>, errors |-> <<>>], dirPath, yamlFiles, 1)

\* loadCustomTemplatesFromDir(dirPath)
loadCustomTemplatesFromDir(dir, dirPath) ==
    IF ~dir.readable THEN [templates |-> <<>>, errors |-> <<>>]
    ELSE LET yamlFiles == SelectSeq(dir.files,
                              LAMBDA f : f.filename[Len(f.filename)] \in YamlExtensions)
         IN  LoadFiles([templates |-> <<>>, errors |-> <<>>], dirPath, yamlFiles, 1)

\* allTemplates.findIndex(t => t.id === id): 0 when there is none
FindIndex(all, id) ==
    LET hits == {i \in 1..Len(all) : all[i].id = id}
    IN  IF hits = {} THEN 0 ELSE CHOOSE i \in hits : \A j \in hits : i <= j

\* lines 26-33: the project templates pt[i..] put into the list
RECURSIVE MergeProjectTemplates(_, _, _)
MergeProjectTemplates(all, pt, i) ==
    IF i > Len(pt) THEN all
    ELSE LET existingIdx == FindIndex(all, pt[i].id)
         IN  MergeProjectTemplates(IF existingIdx > 0 THEN [all EXCEPT ![existingIdx] = pt[i]]
                                   ELSE Append(all, pt[i]),
                                   pt, i + 1)

-----------------------------------------------------------------------------
(* resolveTemplateConfig, src/src/templates/configs/index.ts *)

BuiltinIds == {"frontend", "microservice", "basic", "library", "api", "fullstack", "devops"}

\* what resolveTemplateConfig returns besides undefined
Config(c) == [k |-> "config", v |-> c]
Function(name) == [k |-> "function", v |-> <<name>>]

\* lines 20-28: the own keys of templateConfigs
templateConfigs == [id \in BuiltinIds |-> Config([id |-> W(id), isCustom |-> FALSE])]

\* keys every object literal inherits from Object.prototype
ObjectPrototypeKeys == {"constructor", "toString", "hasOwnProperty"}

\* templateConfigs[type] with own keys only
PropertyOf_OwnOnly(id) ==
    IF Len(id) = 1 /\ id[1] \in BuiltinIds THEN templateConfigs[id[1]]
    ELSE Undefined

\* line 38: templateConfigs[type], an own key or one inherited from Object.prototype
PropertyOf(id) ==
    IF Len(id) = 1 /\ id[1] \in BuiltinIds THEN templateConfigs[id[1]]
    ELSE IF Len(id) = 1 /\ id[1] \in ObjectPrototypeKeys THEN Function(id[1])
    ELSE Undefined

\* a template with every required field, named after its scope
ScopedTemplate(scope) ==
    RawTemplate(Str(<<scope, " ", "template">>), Str(<<"A", " ", "template">>),
                <<Undefined, Undefined>>,
                Obj(Put(EmptyObject, W("SKILL.md"), Str(<<"#", " ", scope>>))),
                Undefined, Undefined)

\* a template without content
BrokenTemplate == RawTemplate(Str(W("Broken")), Undefined, <<Undefined, Undefined>>,
                              Undefined, Undefined, Undefined)

GlobalFiles ==
    {File(<<"x", ".yaml">>, "ok", ScopedTemplate("global"), companion) : companion \in BOOLEAN}
    \cup {File(<<"x", ".yaml">>, "ok", BrokenTemplate, FALSE),
          File(<<"x", ".yaml">>, "unreadable", Undefined, FALSE),
          File(<<"x", ".yaml">>, "unparsable", Undefined, FALSE),
          File(<<"x", ".yml">>, "ok", ScopedTemplate("global"), FALSE),
          File(<<"x", ".yml">>, "ok", BrokenTemplate, FALSE),
          File(<<"y", ".yaml">>, "ok", ScopedTemplate("global"), FALSE),
          File(<<"y", ".yaml">>, "unreadable", Undefined, FALSE),
          File(<<"notes", ".txt">>, "ok", ScopedTemplate("global"), FALSE)}

ProjectFiles ==
    {File(<<"x", ".yaml">>, "ok", ScopedTemplate("project"), FALSE),
     File(<<"x", ".yaml">>, "ok", BrokenTemplate, FALSE),
     File(<<"x", ".yml">>, "ok", ScopedTemplate("project"), FALSE),
     File(<<"z", ".yaml">>, "ok", ScopedTemplate("project"), FALSE)}

\* no two files of a directory have the same name
DistinctNames(files) ==
    \A i, j \in 1..Len(files) : i # j => files[i].filename # files[j].filename

DirectoriesOf(files, n) ==
    {NoDirectory}
    \cup {Directory(fs) : fs \in {s \in UNION { [1..m -> files] : m \in 0..n } : DistinctNames(s)}}

\* the call loadCustomTemplates()
InitLoad ==
    /\ globalDir \in DirectoriesOf(GlobalFiles, MaxFiles)
    /\ projectDir \in DirectoriesOf(ProjectFiles, MaxFiles)
    /\ allTemplates = <<>>
    /\ allErrors = <<>>
    /\ wanted = <<>>
    /\ returned = Undefined
    /\ lpc = "global"
    /\ IdleResolver
    /\ IdleRender
    /\ IdleEval
    /\ IdleDetect
    /\ IdleValidator

\* lines 20-22: the global directory is loaded
LoadGlobal ==
    /\ lpc = "global"
    /\ LET global == loadCustomTemplatesFromDir(globalDir, GLOBAL_DIR)
       IN  /\ allTemplates' = allTemplates \o global.templates
           /\ allErrors' = allErrors \o global.errors
    /\ lpc' = "project"
    /\ UNCHANGED <<globalDir, projectDir, wanted, returned, resolverVars, renderVars, evalVars,
                   detectVars, validatorVars>>

\* lines 25-36: the project directory is loaded and merged, the lists are returned
MergeProject ==
    /\ lpc = "project"
    /\ LET project == loadCustomTemplatesFromDir(projectDir, PROJECT_DIR)
       IN  /\ allTemplates' = MergeProjectTemplates(allTemplates, project.templates, 1)
           /\ allErrors' = allErrors \o project.errors
    /\ lpc' = "loaded"
    /\ UNCHANGED <<globalDir, projectDir, wanted, returned, resolverVars, renderVars, evalVars,
                   detectVars, validatorVars>>

NextLoad == LoadGlobal \/ MergeProject

SpecLoad == InitLoad /\ [][NextLoad]_vars

\* the ids asked for: the built-in ones, ids of custom templates, an id nothing
\* defines, names of Object.prototype
WantedIds ==
    {W(id) : id \in BuiltinIds \cup {"x", "nothing", "toString", "constructor"}}

ResolveGlobalFiles ==
    {File(<<"api", ".yaml">>, "ok", ScopedTemplate("global"), FALSE),
     File(<<"x", ".yaml">>, "ok", ScopedTemplate("global"), FALSE),
     File(<<"toString", ".yaml">>, "ok", ScopedTemplate("global"), FALSE)}

ResolveProjectFiles ==
    {File(<<"api", ".yaml">>, "ok", ScopedTemplate("project"), FALSE),
     File(<<"x", ".yaml">>, "ok", ScopedTemplate("project"), FALSE)}

\* the call resolveTemplateConfig(type)
InitResolve ==
    /\ wanted \in WantedIds
    /\ globalDir \in DirectoriesOf(ResolveGlobalFiles, MaxFiles)
    /\ projectDir \in DirectoriesOf(ResolveProjectFiles, MaxFiles)
    /\ allTemplates = <<>>
    /\ allErrors = <<>>
    /\ returned = Undefined
    /\ lpc = "builtin"
    /\ IdleResolver
    /\ IdleRender
    /\ IdleEval
    /\ IdleDetect
    /\ IdleValidator

\* lines 38-39: the built-in table is consulted first
CheckBuiltin ==
    /\ lpc = "builtin"
    /\ LET builtin == PropertyOf(wanted)
       IN  IF builtin # Undefined
           THEN returned' = builtin /\ lpc' = "done"
           ELSE returned' = returned /\ lpc' = "global"
    /\ UNCHANGED <<globalDir, projectDir, allTemplates, allErrors, wanted, resolverVars,
                   renderVars, evalVars, detectVars, validatorVars>>

\* line 43: templates.find(t => t.id === type)
FindCustom ==
    /\ lpc = "loaded"
    /\ LET idx == FindIndex(allTemplates, wanted)
       IN  returned' = IF idx = 0 THEN Undefined ELSE Config(allTemplates[idx])
    /\ lpc' = "done"
    /\ UNCHANGED <<globalDir, projectDir, allTemplates, allErrors, wanted, resolverVars,
                   renderVars, evalVars, detectVars, validatorVars>>

NextResolve == CheckBuiltin \/ LoadGlobal \/ MergeProject \/ FindCustom

SpecResolve == InitResolve /\ [][NextResolve]_vars

-----------------------------------------------------------------------------
(* Claims about loadCustomTemplates *)

\* the definition files of a directory, in directory order
YamlFilesOf(dir) ==
    IF ~dir.readable THEN <<>>
    ELSE SelectSeq(dir.files, LAMBDA f : f.filename[Len(f.filename)] \in YamlExtensions)

\* the file cannot be read or parsed, or fails validation
Rejected(f, dirPath) ==
    \/ f.read # "ok"
    \/ ~validateCustomTemplate(f.parsed, dirPath \o f.filename).valid

RejectedFiles(dir, dirPath) == SelectSeq(YamlFilesOf(dir), LAMBDA f : Rejected(f, dirPath))
AcceptedFiles(dir, dirPath) == SelectSeq(YamlFilesOf(dir), LAMBDA f : ~Rejected(f, dirPath))

FromGlobal(t) == StartsWith(t.sourcePath, GLOBAL_DIR)
FromProject(t) == StartsWith(t.sourcePath, PROJECT_DIR)

\* the ids the valid files of the project directory define
IdsOf(files) == {StripYaml(files[i].filename) : i \in 1..Len(files)}
ProjectIds == IdsOf(AcceptedFiles(projectDir, PROJECT_DIR))
GlobalIds == IdsOf(AcceptedFiles(globalDir, GLOBAL_DIR))

\* C28: a file that cannot be read or parsed or fails validation adds one
\* entry to errors, naming the file, and no template, while the other files of
\* the directory are still loaded; a missing or unreadable directory yields
\* neither; an invalid project file leaves a valid global template with its id
\* in the list, and the errors of both scopes are returned together, global first.
C28_FailuresAreIsolated ==
    LET gBad == RejectedFiles(globalDir, GLOBAL_DIR)
        gGood == AcceptedFiles(globalDir, GLOBAL_DIR)
        pBad == RejectedFiles(projectDir, PROJECT_DIR)
    IN  /\ lpc = "project" =>
            /\ Len(allErrors) = Len(gBad)
            /\ \A i \in 1..Len(gBad) : StartsWith(allErrors[i], gBad[i].filename \o <<": ">>)
            /\ Len(allTemplates) = Len(gGood)
            /\ \A i \in 1..Len(gGood) : allTemplates[i] = TemplateConfig(GLOBAL_DIR, gGood[i])
            /\ ~globalDir.readable => allTemplates = <<>> /\ allErrors = <<>>
        /\ lpc = "loaded" =>
            /\ Len(allErrors) = Len(gBad) + Len(pBad)
            /\ \A i \in 1..Len(gBad) : StartsWith(allErrors[i], gBad[i].filename \o <<": ">>)
            /\ \A i \in 1..Len(pBad) :
                   StartsWith(allErrors[Len(gBad) + i], pBad[i].filename \o <<": ">>)
            /\ \A i \in 1..Len(gGood) :
                   StripYaml(gGood[i].filename) \notin ProjectIds =>
                       /\ i <= Len(allTemplates)
                       /\ allTemplates[i] = TemplateConfig(GLOBAL_DIR, gGood[i])
            /\ (~globalDir.readable /\ ~projectDir.readable) =>
                   allTemplates = <<>> /\ allErrors = <<>>

\* a global file fails before a valid one, and the project's file for the
\* valid one's id is invalid: the global template is returned with both errors
C28_Witness ==
    /\ lpc = "loaded"
    /\ globalDir = Directory(<<File(<<"y", ".yaml">>, "unreadable", Undefined, FALSE),
                               File(<<"x", ".yaml">>, "ok", ScopedTemplate("global"), FALSE)>>)
    /\ projectDir = Directory(<<File(<<"x", ".yaml">>, "ok", BrokenTemplate, FALSE),
                                File(<<"z", ".yaml">>, "ok", ScopedTemplate("project"), FALSE)>>)
    /\ Len(allTemplates) = 2
    /\ FromGlobal(allTemplates[1])
    /\ allTemplates[1].id = W("x")
    /\ Len(allErrors) = 2

\* C29: the merged list holds at most one template per id
C29_OneTemplatePerId ==
    lpc = "loaded" =>
        \A i, j \in 1..Len(allTemplates) :
            i # j => allTemplates[i].id # allTemplates[j].id

\* C24: every id a valid project file defines has exactly the project
\* definition in the merged list and no global one; global definitions with
\* other ids are kept in order; project definitions with new ids come last
C24_ProjectShadowsGlobal ==
    lpc = "loaded" =>
        LET pGood == AcceptedFiles(projectDir, PROJECT_DIR)
            gGood == AcceptedFiles(globalDir, GLOBAL_DIR)
            kept == SelectSeq(gGood, LAMBDA f : StripYaml(f.filename) \notin ProjectIds)
            globals == SelectSeq(allTemplates, LAMBDA t : FromGlobal(t))
        IN  /\ \A id \in ProjectIds : \E i \in 1..Len(allTemplates) : allTemplates[i].id = id
            /\ \A i \in 1..Len(allTemplates) :
                   allTemplates[i].id \in ProjectIds =>
                       \E k \in 1..Len(pGood) :
                           allTemplates[i] = TemplateConfig(PROJECT_DIR, pGood[k])
            /\ Len(globals) = Len(kept)
            /\ \A i \in 1..Len(kept) : globals[i] = TemplateConfig(GLOBAL_DIR, kept[i])
            /\ \A i, j \in 1..Len(allTemplates) :
                   (FromProject(allTemplates[i]) /\ allTemplates[i].id \notin GlobalIds
                    /\ allTemplates[j].id \in GlobalIds) => j < i

-----------------------------------------------------------------------------
(* Claims about resolveTemplateConfig *)

IsBuiltinId(id) == Len(id) = 1 /\ id[1] \in BuiltinIds

\* C30: a built-in id returns the built-in definition and custom templates
\* are not consulted; any other id returns the custom template with that id,
\* and undefined when there is none
C30_BuiltinsFirst ==
    lpc = "done" =>
        IF IsBuiltinId(wanted)
        THEN returned = templateConfigs[wanted[1]] /\ allTemplates = <<>>
        ELSE LET hits == {i \in 1..Len(allTemplates) : allTemplates[i].id = wanted}
             IN  IF hits = {} THEN returned = Undefined
                 ELSE \E i \in hits : returned = Config(allTemplates[i])

====
